---- MODULE Spec2Model ----
(***************************************************************************)
(* Model of the trade / authentication orchestration layer of the trading  *)
(* dashboard: the zustand store (client/store/trading.ts) and the          *)
(* PasskeyService it drives (servers/PasskeyService).                      *)
(*                                                                         *)
(* JavaScript is single-threaded: the code between two awaits on an        *)
(* external event (authenticator prompt, RPC call, fetch, timer) runs      *)
(* without interruption.  Each async call in flight is a process p with a  *)
(* stack of labels procs[p].stack; `running` names the process holding   *)
(* the thread.  Only that process steps until it reaches its next external *)
(* await (or finishes), where it gives the thread up (running = None).     *)
(* The environment (authenticator, network, timers, the clock) picks the   *)
(* outcome when it resumes a waiting process.                              *)
(***************************************************************************)
EXTENDS Integers, Sequences, FiniteSets

None == "none"

(***************************************************************************)
(* JavaScript numbers, in exact arithmetic: a number is a fraction <<n,d>> *)
(* in lowest terms with d > 0; NaN is <<0,0>>, +-Infinity is <<+-1,0>>.    *)
(***************************************************************************)
NaN == <<0, 0>>

IsNaN(x) == x[1] = 0 /\ x[2] = 0

IsFinite(x) == x[2] > 0

Abs(i) == IF i < 0 THEN -i ELSE i

Sign(i) == IF i < 0 THEN -1 ELSE IF i > 0 THEN 1 ELSE 0

RECURSIVE GCD(_, _)
GCD(a, b) == IF b = 0 THEN a ELSE GCD(b, a % b)

\* n/d for integers n, d (d possibly 0 or negative), in lowest terms
Frac(n, d) ==
    IF d = 0 THEN <<Sign(n), 0>>
    ELSE LET g == GCD(Abs(n), Abs(d)) IN <<(Sign(d) * n) \div g, Abs(d) \div g>>

Num(i) == <<i, 1>>

NumAdd(x, y) ==
    IF IsNaN(x) \/ IsNaN(y) THEN NaN
    ELSE IF IsFinite(x) /\ IsFinite(y) THEN Frac(x[1] * y[2] + y[1] * x[2], x[2] * y[2])
    ELSE IF IsFinite(x) THEN y
    ELSE IF IsFinite(y) THEN x
    ELSE IF x[1] = y[1] THEN x ELSE NaN

NumNeg(x) == <<-x[1], x[2]>>

NumSub(x, y) == NumAdd(x, NumNeg(y))

NumMul(x, y) ==
    IF IsNaN(x) \/ IsNaN(y) THEN NaN
    ELSE IF IsFinite(x) /\ IsFinite(y) THEN Frac(x[1] * y[1], x[2] * y[2])
    ELSE <<Sign(x[1]) * Sign(y[1]), 0>>

NumDiv(x, y) ==
    IF IsNaN(x) \/ IsNaN(y) THEN NaN
    ELSE IF IsFinite(x) /\ IsFinite(y) THEN Frac(x[1] * y[2], x[2] * y[1])
    ELSE IF IsFinite(y) THEN <<x[1] * (IF y[1] < 0 THEN -1 ELSE 1), 0>>
    ELSE IF IsFinite(x) THEN Num(0)
    ELSE NaN

\* x < y, x <= y, x > y as JavaScript compares: false as soon as one side is NaN
NumLt(x, y) ==
    /\ ~IsNaN(x) /\ ~IsNaN(y)
    /\ IF IsFinite(x) /\ IsFinite(y) THEN x[1] * y[2] < y[1] * x[2]
       ELSE IF IsFinite(x) THEN y[1] > 0
       ELSE IF IsFinite(y) THEN x[1] < 0
       ELSE x[1] < y[1]

NumLe(x, y) == ~IsNaN(x) /\ ~IsNaN(y) /\ (x = y \/ NumLt(x, y))

NumGt(x, y) == NumLt(y, x)

\* Math.max(x, y): NaN if either argument is NaN
NumMax(x, y) == IF IsNaN(x) \/ IsNaN(y) THEN NaN ELSE IF NumLt(x, y) THEN y ELSE x

(***************************************************************************)
(* Strings that carry numbers are sequences of characters.  parseFloat     *)
(* reads an optional sign and the longest run of decimal digits (with an   *)
(* optional fraction) at the front of the string; with no digit there it   *)
(* returns NaN.  Number.prototype.toString prints integers in decimal.     *)
(***************************************************************************)
Digits == <<"0", "1", "2", "3", "4", "5", "6", "7", "8", "9">>

IsDigit(c) == \E k \in 1..10 : Digits[k] = c

DigitVal(c) == (CHOOSE k \in 1..10 : Digits[k] = c) - 1

\* [val |-> the digits of s from position i read as a number after acc, len |-> how many]
RECURSIVE ReadDigits(_, _, _, _)
ReadDigits(s, i, acc, n) ==
    IF i <= Len(s) /\ IsDigit(s[i])
    THEN ReadDigits(s, i + 1, acc * 10 + DigitVal(s[i]), n + 1)
    ELSE [val |-> acc, len |-> n]

RECURSIVE Pow10(_)
Pow10(k) == IF k = 0 THEN 1 ELSE 10 * Pow10(k - 1)

ParseFloat(s) ==
    LET neg   == Len(s) >= 1 /\ s[1] = "-"
        start == IF Len(s) >= 1 /\ s[1] \in {"-", "+"} THEN 2 ELSE 1
        ip    == ReadDigits(s, start, 0, 0)
        dot   == start + ip.len
        fp    == IF dot <= Len(s) /\ s[dot] = "."
                 THEN ReadDigits(s, dot + 1, 0, 0)
                 ELSE [val |-> 0, len |-> 0]
        mag   == Frac(ip.val * Pow10(fp.len) + fp.val, Pow10(fp.len))
    IN  IF ip.len = 0 /\ fp.len = 0 THEN NaN
        ELSE IF neg THEN NumNeg(mag) ELSE mag

RECURSIVE NatToString(_)
NatToString(n) ==
    IF n < 10 THEN <<Digits[n + 1]>>
    ELSE NatToString(n \div 10) \o <<Digits[(n % 10) + 1]>>

\* toString of a number; the model only ever prints integers, NaN and Infinity
NumToString(x) ==
    IF IsNaN(x) THEN <<"N", "a", "N">>
    ELSE IF ~IsFinite(x) THEN <<"I", "n", "f">>
    ELSE IF x[1] < 0 THEN <<"-">> \o NatToString((-x[1]) \div x[2])
    ELSE NatToString(x[1] \div x[2])

(***************************************************************************)
(* Program constants.  Time is counted in hours.                           *)
(***************************************************************************)
\* maxAge = 24 * 60 * 60 * 1000 ms
MaxAge == 24

\* the poll loop: for (let i = 0; i < 10; i++)
MaxPolls == 10

MinLeverage == 1

MaxLeverage == 100

\* getMockKaleBalance: '1000' when the blob holds no mockKaleBalance
DefaultMockBalance == 1000

\* supportedMarkets with one market more
supportedMarkets_withDOGE == {"XLM", "BTC", "ETH", "DOGE"}

supportedMarkets == {"XLM", "BTC", "ETH"}

(***************************************************************************)
(* Bounds of the model.                                                    *)
(***************************************************************************)
\* the clock stops advancing here
MaxNow == 25

\* the clock advances in steps of half a session lifetime
TickHours == MaxAge \div 2

Procs == {"p1", "p2"}

\* the user ids register() is given or generates
UserIds == {"u1"}

(***************************************************************************)
(* Values.  An optional value (null / undefined or a value) is a sequence  *)
(* of length 0 or 1.                                                       *)
(***************************************************************************)
Null == <<>>

Some(x) == <<x>>

\* results: { success, error?, transactionHash?, userId?, balance? }; a missing
\* error is "", a missing hash or balance is the empty string <<>>; `thrown`
\* marks a rejected promise (an exception on its way to the caller)
Res(ok, err) ==
    [success |-> ok, error |-> err, hash |-> <<>>, userId |-> None, balance |-> <<>>,
     thrown |-> FALSE]

NoRes == Res(FALSE, "")

Ok == Res(TRUE, "")

Fail(err) == Res(FALSE, err)

Throw(err) == [Res(FALSE, err) EXCEPT !.thrown = TRUE]

OkHash(h) == [Res(TRUE, "") EXCEPT !.hash = h]

OkUser(u) == [Res(TRUE, "") EXCEPT !.userId = u]

(***************************************************************************)
(* The persisted blob: localStorage['passkeyAuth'], one JSON object.       *)
(* Of its fields the model keeps userId, lastAuth (0: not set),            *)
(* mockKaleBalance (a string; <<>>: not set) and mockVaultData (Null: not  *)
(* set).  credentialId, publicKey, stellarPublicKey, stellarSecret and     *)
(* contractId are written together with userId and never change after.    *)
(***************************************************************************)
\* the object register() persists: no lastAuth, no mock ledger
NewAuthData(userId) ==
    [userId |-> userId, lastAuth |-> 0, mockKaleBalance |-> <<>>, mockVaultData |-> Null]

\* the persisted session of blob b is valid at time t: it has a lastAuth, less than
\* 24 h old
SessionValid(b, t) == b # Null /\ b[1].lastAuth # 0 /\ t - b[1].lastAuth < 24

\* getAuthStatus with a session still good at exactly maxAge
getAuthStatus_inclusive(b, t) ==
    IF b = Null THEN [isAuthenticated |-> FALSE, userId |-> None]
    ELSE LET authData == b[1]
             isRecent == authData.lastAuth # 0 /\ (t - authData.lastAuth) <= MaxAge
         IN  [isAuthenticated |-> isRecent, userId |-> authData.userId]

\* getAuthStatus(): PasskeyAuth, of blob b at time t
getAuthStatus(b, t) ==
    IF b = Null THEN [isAuthenticated |-> FALSE, userId |-> None]
    ELSE LET authData == b[1]
             isRecent == authData.lastAuth # 0 /\ (t - authData.lastAuth) < MaxAge
         IN  [isAuthenticated |-> isRecent, userId |-> authData.userId]

\* getMockKaleBalance(): string
getMockKaleBalance(b) ==
    IF b # Null /\ b[1].mockKaleBalance # <<>> THEN b[1].mockKaleBalance
    ELSE NatToString(DefaultMockBalance)

\* updateMockBalance without the clamp at 0
updateMockBalance_unclamped(b, tradeAmount) ==
    IF b = Null THEN b
    ELSE LET authData == b[1]
             currentBalance == ParseFloat(IF authData.mockKaleBalance # <<>>
                                          THEN authData.mockKaleBalance
                                          ELSE NatToString(DefaultMockBalance))
             newBalance == NumSub(currentBalance, ParseFloat(tradeAmount))
         IN  Some([authData EXCEPT !.mockKaleBalance = NumToString(newBalance)])

\* updateMockBalance(tradeAmount): the blob after it
updateMockBalance(b, tradeAmount) ==
    IF b = Null THEN b
    ELSE LET authData == b[1]
             currentBalance == ParseFloat(IF authData.mockKaleBalance # <<>>
                                          THEN authData.mockKaleBalance
                                          ELSE NatToString(DefaultMockBalance))
             newBalance == NumMax(Num(0), NumSub(currentBalance, ParseFloat(tradeAmount)))
         IN  Some([authData EXCEPT !.mockKaleBalance = NumToString(newBalance)])

(***************************************************************************)
(* State.                                                                  *)
(***************************************************************************)
VARIABLES
    now,                        \* Date.now(), in hours
    supported,                  \* PasskeyService.isSupported()
    blob,                       \* localStorage['passkeyAuth']: Null or Some(authData)
    authenticationInProgress,   \* PasskeyService.authenticationInProgress
    lastAuthResult,             \* PasskeyService.lastAuthResult: Null or Some(result)
    store,                      \* the zustand store's state
    procs,                      \* the async calls in flight
    running,                    \* the call that holds the thread, or None
    last                        \* the outcome of the call that has just returned to its
                                \* caller outside, NoLast in every other state

vars == <<now, supported, blob, authenticationInProgress, lastAuthResult, store, procs,
          running, last>>

\* the store's initial state
InitialStore ==
    [passkeyAuth |-> [isAuthenticated |-> FALSE, userId |-> None],
     isConnected |-> FALSE,
     balance |-> Num(0),
     kaleBalance |-> <<"0">>,
     stellarBalance |-> <<"0">>,
     positions |-> <<>>,
     orderSize |-> <<>>,
     orderPrice |-> <<>>,
     leverage |-> 1,
     baseAsset |-> "XLM",
     vaultInfo |-> Null,
     vaultLoading |-> FALSE,
     orderLoading |-> FALSE,
     balanceLoading |-> FALSE,
     operationInProgress |-> FALSE,
     currentPrices |-> Null,
     simulationMode |-> FALSE]

\* what one call has done so far: calls to the authenticator, to the RPC server,
\* signatures made, writes to the simulated ledger, the functions it called in turn
G0 ==
    [prompts |-> 0, getAccount |-> 0, simulate |-> 0, sign |-> 0, send |-> 0, poll |-> 0,
     ledger |-> 0, calls |-> <<>>]

\* one TransactionAttempt: the endpoint it calls, how far it got, how it ended
NoAttempt ==
    [endpoint |-> None, status |-> None, simError |-> FALSE, signed |-> FALSE,
     sent |-> FALSE, polls |-> 0, settledAt |-> 0, done |-> FALSE, res |-> NoRes]

\* the arguments of a call; for a call that reads the order form instead, the form
\* as the call found it
\* `registered`, kept for authenticate and authenticateWithPasskey: a persisted
\* identity existed when the call was made; `valid`, kept for placeOrder and the
\* vault operations: the persisted session was valid when the call was made;
\* `before`, kept where calls are made one at a time: what was persisted and shown
\* when the call was made
NoArgs ==
    [market |-> None, amount |-> <<>>, price |-> <<>>, leverage |-> 0, sim |-> FALSE,
     registered |-> FALSE, valid |-> FALSE, before |-> <<>>]

Form(st) ==
    [market |-> st.baseAsset, amount |-> st.orderSize, price |-> st.orderPrice,
     leverage |-> st.leverage, sim |-> st.simulationMode, registered |-> FALSE,
     valid |-> FALSE, before |-> <<>>]

IdleProc ==
    [stack |-> <<>>, ret |-> NoRes, op |-> None, args |-> NoArgs, g |-> G0, att |-> NoAttempt,
     market |-> None, amount |-> <<>>, leverage |-> 0, force |-> FALSE, endpoint |-> None,
     i |-> 0, authData |-> Null, userId |-> None, result |-> NoRes]

NoLast ==
    [proc |-> None, op |-> None, args |-> NoArgs, res |-> NoRes, g |-> G0, att |-> NoAttempt]

Init ==
    /\ now = 1
    /\ supported = TRUE
    /\ blob = Null
    /\ authenticationInProgress = FALSE
    /\ lastAuthResult = Null
    /\ store = InitialStore
    /\ procs = [p \in Procs |-> IdleProc]
    /\ running = None
    /\ last = NoLast

(***************************************************************************)
(* Control.                                                                *)
(***************************************************************************)
Idle(p) == procs[p].stack = <<>>

\* p holds the thread and is at label l
At(p, l) == running = p /\ procs[p].stack # <<>> /\ Head(procs[p].stack) = l

\* p waits at label l for an external event, and the thread is free
Waiting(p, l) == running = None /\ procs[p].stack # <<>> /\ Head(procs[p].stack) = l

\* p, in state q, goes on at label l
Goto(p, q, l) ==
    /\ procs' = [procs EXCEPT ![p] = [q EXCEPT !.stack = <<l>> \o Tail(q.stack),
                                               !.ret = NoRes]]
    /\ running' = p
    /\ last' = NoLast

\* p, in state q, awaits an external event at label l
Await(p, q, l) ==
    /\ procs' = [procs EXCEPT ![p] = [q EXCEPT !.stack = <<l>> \o Tail(q.stack),
                                               !.ret = NoRes]]
    /\ running' = None
    /\ last' = NoLast

\* p, in state q, calls `callee` and goes on at label l when it returns
Call(p, q, callee, l) ==
    /\ procs' = [procs EXCEPT ![p] = [q EXCEPT !.stack = <<callee, l>> \o Tail(q.stack),
                                               !.ret = NoRes,
                                               !.g.calls = Append(@, callee)]]
    /\ running' = p
    /\ last' = NoLast

\* p, in state q, returns r to its caller; the outermost call ends here
Ret(p, q, r) ==
    IF Tail(q.stack) = <<>>
    THEN /\ procs' = [procs EXCEPT ![p] = IdleProc]
         /\ running' = None
         /\ last' = [proc |-> p, op |-> q.op, args |-> q.args, res |-> r, g |-> q.g,
                     att |-> q.att]
    ELSE /\ procs' = [procs EXCEPT ![p] = [q EXCEPT !.stack = Tail(q.stack), !.ret = r]]
         /\ running' = p
         /\ last' = NoLast

\* a caller (a component, a timer) starts the call `op` in the free slot p
Start(p, op, args) ==
    /\ running = None
    /\ Idle(p)
    /\ procs' = [procs EXCEPT ![p] =
                    [IdleProc EXCEPT !.stack = <<op>>, !.op = op, !.args = args,
                                     !.market = args.market, !.amount = args.amount,
                                     !.leverage = args.leverage]]
    /\ running' = p
    /\ last' = NoLast

\* the clock advances while nothing runs
Tick ==
    /\ running = None
    /\ now + TickHours <= MaxNow
    /\ now' = now + TickHours
    /\ last' = NoLast
    /\ UNCHANGED <<supported, blob, authenticationInProgress, lastAuthResult, store, procs,
                   running>>

(***************************************************************************)
(* PasskeyService.authenticate                                             *)
(***************************************************************************)
AuthenticatorOutcomes == {"ok", "NotAllowedError", "InvalidStateError", "null"}

\* the catch block's message for a failed navigator.credentials.get
AuthFailure(outcome) ==
    IF outcome = "NotAllowedError" THEN Fail("Authentication was cancelled or not allowed")
    ELSE IF outcome = "InvalidStateError" THEN Fail("Passkey not found or invalid")
    ELSE Fail("Authentication failed")

\* authenticate_entry without the short-circuit on a valid session
authenticate_entry_alwaysPrompts(p) ==
    /\ At(p, "authenticate")
    /\ UNCHANGED <<now, supported, blob, lastAuthResult, store>>
    /\ LET q == procs[p]
       IN  IF authenticationInProgress /\ lastAuthResult # Null
           THEN /\ Ret(p, q, lastAuthResult[1])
                /\ UNCHANGED authenticationInProgress
           ELSE IF authenticationInProgress
           THEN /\ Ret(p, q, Throw("Authentication already in progress"))
                /\ UNCHANGED authenticationInProgress
           ELSE IF ~supported
           THEN /\ Ret(p, q, Fail("WebAuthn is not supported on this device"))
                /\ authenticationInProgress' = FALSE
           ELSE IF blob = Null
           THEN /\ Ret(p, q, Fail("No passkey found. Please register first."))
                /\ authenticationInProgress' = FALSE
           ELSE /\ Await(p, [q EXCEPT !.authData = blob, !.g.prompts = @ + 1],
                         "authenticate_get")
                /\ authenticationInProgress' = TRUE

\* from the call to the await of navigator.credentials.get
authenticate_entry(p) ==
    /\ At(p, "authenticate")
    /\ UNCHANGED <<now, supported, blob, lastAuthResult, store>>
    /\ LET q == procs[p]
           authStatus == getAuthStatus(blob, now)
       IN  IF authenticationInProgress /\ lastAuthResult # Null
           THEN /\ Ret(p, q, lastAuthResult[1])
                /\ UNCHANGED authenticationInProgress
           ELSE IF authStatus.isAuthenticated
           THEN /\ Ret(p, q, OkUser(authStatus.userId))
                /\ UNCHANGED authenticationInProgress
           ELSE IF authenticationInProgress
           THEN /\ Ret(p, q, Throw("Authentication already in progress"))
                /\ UNCHANGED authenticationInProgress
           ELSE IF ~supported
           THEN /\ Ret(p, q, Fail("WebAuthn is not supported on this device"))
                /\ authenticationInProgress' = FALSE
           ELSE IF blob = Null
           THEN /\ Ret(p, q, Fail("No passkey found. Please register first."))
                /\ authenticationInProgress' = FALSE
           ELSE /\ Await(p, [q EXCEPT !.authData = blob, !.g.prompts = @ + 1],
                         "authenticate_get")
                /\ authenticationInProgress' = TRUE

\* navigator.credentials.get settles
authenticate_get(p, outcome) ==
    /\ Waiting(p, "authenticate_get")
    /\ UNCHANGED <<now, supported, store>>
    /\ authenticationInProgress' = FALSE
    /\ LET q == [procs[p] EXCEPT !.authData = Null]
       IN  IF outcome = "ok"
           THEN LET authData == [procs[p].authData[1] EXCEPT !.lastAuth = now]
                    r == OkUser(authData.userId)
                IN  /\ blob' = Some(authData)
                    /\ lastAuthResult' = Some(r)
                    /\ Ret(p, q, r)
           ELSE /\ UNCHANGED <<blob, lastAuthResult>>
                /\ Ret(p, q, AuthFailure(outcome))

(***************************************************************************)
(* PasskeyService.executeTrade and executeTradeViaSubmit: the real path.   *)
(* The two differ in the contract function they call (create_position,     *)
(* submit), in executeTrade validating its inputs first, and in their      *)
(* messages; q.endpoint tells them apart.                                  *)
(***************************************************************************)
Endpoints == {"create_position", "submit"}

TradeFn(endpoint) == IF endpoint = "submit" THEN "executeTradeViaSubmit" ELSE "executeTrade"

\* the function returns r: the attempt is over
RetTrade(p, q, r) == Ret(p, [q EXCEPT !.att.done = TRUE, !.att.res = r, !.i = 0], r)

\* if (!market || !amount || parseFloat(amount) <= 0)
InvalidTradeParameters(market, amount) ==
    market = "" \/ amount = <<>> \/ NumLe(ParseFloat(amount), Num(0))

\* InvalidLeverage without the upper limit
InvalidLeverage_noUpperLimit(leverage) == leverage < MinLeverage

\* if (leverage < 1 || leverage > 100)
InvalidLeverage(leverage) == leverage < MinLeverage \/ leverage > MaxLeverage

\* from the call to `await this.authenticate()`
executeTrade_entry(p, endpoint) ==
    /\ At(p, TradeFn(endpoint))
    /\ UNCHANGED <<now, supported, blob, authenticationInProgress, lastAuthResult, store>>
    /\ LET q == [procs[p] EXCEPT !.endpoint = endpoint,
                                 !.att = [NoAttempt EXCEPT !.endpoint = endpoint]]
       IN  IF endpoint = "create_position" /\ InvalidTradeParameters(q.market, q.amount)
           THEN RetTrade(p, q, Fail("Invalid trade parameters"))
           ELSE IF endpoint = "create_position" /\ InvalidLeverage(q.leverage)
           THEN RetTrade(p, q, Fail("Leverage must be between 1x and 100x"))
           ELSE Call(p, q, "authenticate", "executeTrade_afterAuth")

\* authenticate() has returned; up to `await this.server.getAccount(...)`
executeTrade_afterAuth(p) ==
    /\ At(p, "executeTrade_afterAuth")
    /\ UNCHANGED <<now, supported, blob, authenticationInProgress, lastAuthResult, store>>
    /\ LET q == procs[p]
           authResult == q.ret
       IN  IF authResult.thrown
           THEN RetTrade(p, q, Fail(authResult.error))
           ELSE IF ~authResult.success
           THEN RetTrade(p, q, Fail("Authentication required"))
           ELSE IF blob = Null
           THEN RetTrade(p, q, Fail("Cannot read properties of null"))
           ELSE Await(p, [q EXCEPT !.g.getAccount = @ + 1], "executeTrade_getAccount")

\* getAccount settles; the transaction is built and sent to simulateTransaction
executeTrade_getAccount(p, outcome) ==
    /\ Waiting(p, "executeTrade_getAccount")
    /\ UNCHANGED <<now, supported, blob, authenticationInProgress, lastAuthResult, store>>
    /\ LET q == procs[p]
       IN  IF outcome = "throw"
           THEN RetTrade(p, q, Fail("Account not found"))
           ELSE Await(p, [q EXCEPT !.att.status = "Built", !.g.simulate = @ + 1],
                      "executeTrade_simulate")

SimulationFailure(endpoint) ==
    IF endpoint = "submit" THEN Fail("Submit simulation failed: HostError")
    ELSE Fail("Transaction failed: HostError")

\* executeTrade_simulate without the isSimulationError gate
executeTrade_simulate_nogate(p, outcome) ==
    /\ Waiting(p, "executeTrade_simulate")
    /\ UNCHANGED <<now, supported, blob, authenticationInProgress, lastAuthResult, store>>
    /\ LET q == procs[p]
       IN  IF outcome = "throw"
           THEN RetTrade(p, q, Fail("Network error"))
           ELSE Await(p, [q EXCEPT !.att.status = "Submitted", !.att.signed = TRUE,
                                   !.att.sent = TRUE, !.g.sign = @ + 1, !.g.send = @ + 1,
                                   !.att.simError = (outcome = "simulationError")],
                      "executeTrade_send")

\* simulateTransaction settles; without a simulation error the transaction is
\* signed and handed to sendTransaction
executeTrade_simulate(p, outcome) ==
    /\ Waiting(p, "executeTrade_simulate")
    /\ UNCHANGED <<now, supported, blob, authenticationInProgress, lastAuthResult, store>>
    /\ LET q == procs[p]
       IN  IF outcome = "throw"
           THEN RetTrade(p, q, Fail("Network error"))
           ELSE IF outcome = "simulationError"
           THEN RetTrade(p, [q EXCEPT !.att.simError = TRUE],
                         SimulationFailure(q.endpoint))
           ELSE Await(p, [q EXCEPT !.att.status = "Submitted", !.att.signed = TRUE,
                                   !.att.sent = TRUE, !.g.sign = @ + 1, !.g.send = @ + 1],
                      "executeTrade_send")

\* the hash sendTransaction answers with, opaque to the program
RealTxHash == <<"txhash">>

TimeoutFailure ==
    Fail("Transaction is taking longer than expected. Check transaction status manually.")

\* executeTrade_send that starts polling whatever sendTransaction answered
executeTrade_send_pollsAnyStatus(p, status) ==
    /\ Waiting(p, "executeTrade_send")
    /\ UNCHANGED <<now, supported, blob, authenticationInProgress, lastAuthResult, store>>
    /\ LET q == procs[p]
       IN  IF status = "throw"
           THEN RetTrade(p, [q EXCEPT !.att.status = "Failed"], Fail("Network error"))
           ELSE IF status = "SUCCESS"
           THEN RetTrade(p, [q EXCEPT !.att.status = "Success"], OkHash(RealTxHash))
           ELSE Await(p, [q EXCEPT !.att.status = IF status = "PENDING" THEN "Pending"
                                                  ELSE "Failed",
                                   !.i = 0], "executeTrade_poll")

\* sendTransaction settles
executeTrade_send(p, status) ==
    /\ Waiting(p, "executeTrade_send")
    /\ UNCHANGED <<now, supported, blob, authenticationInProgress, lastAuthResult, store>>
    /\ LET q == procs[p]
       IN  IF status = "throw"
           THEN RetTrade(p, [q EXCEPT !.att.status = "Failed"], Fail("Network error"))
           ELSE IF status = "SUCCESS"
           THEN RetTrade(p, [q EXCEPT !.att.status = "Success"], OkHash(RealTxHash))
           ELSE IF status = "PENDING"
           THEN Await(p, [q EXCEPT !.att.status = "Pending", !.i = 0], "executeTrade_poll")
           ELSE RetTrade(p, [q EXCEPT !.att.status = "Failed"], Fail("Transaction error"))

\* the number of the first poll that getTransaction answered with SUCCESS or FAILED,
\* 0 while there was none: kept to state when the loop should have ended
SettledAt(a, status) ==
    IF a.settledAt = 0 /\ status \in {"SUCCESS", "FAILED"} THEN a.polls + 1 ELSE a.settledAt

\* executeTrade_poll that reads the status only from the second turn of the loop on
executeTrade_poll_skipsFirstAnswer(p, status) ==
    /\ Waiting(p, "executeTrade_poll")
    /\ UNCHANGED <<now, supported, blob, authenticationInProgress, lastAuthResult, store>>
    /\ LET q == [procs[p] EXCEPT !.att.polls = @ + 1, !.g.poll = @ + 1,
                                 !.att.settledAt = SettledAt(procs[p].att, status)]
       IN  IF status = "SUCCESS" /\ q.i > 0
           THEN RetTrade(p, [q EXCEPT !.att.status = "Success"], OkHash(RealTxHash))
           ELSE IF status = "FAILED" /\ q.i > 0
           THEN RetTrade(p, [q EXCEPT !.att.status = "Failed"],
                         Fail("Transaction failed after submission"))
           ELSE IF q.i + 1 < MaxPolls
           THEN Await(p, [q EXCEPT !.i = @ + 1], "executeTrade_poll")
           ELSE RetTrade(p, [q EXCEPT !.att.status = "Timeout"], TimeoutFailure)

\* executeTrade_poll with one more turn of the loop
executeTrade_poll_extraTurn(p, status) ==
    /\ Waiting(p, "executeTrade_poll")
    /\ UNCHANGED <<now, supported, blob, authenticationInProgress, lastAuthResult, store>>
    /\ LET q == [procs[p] EXCEPT !.att.polls = @ + 1, !.g.poll = @ + 1,
                                 !.att.settledAt = SettledAt(procs[p].att, status)]
       IN  IF status = "SUCCESS"
           THEN RetTrade(p, [q EXCEPT !.att.status = "Success"], OkHash(RealTxHash))
           ELSE IF status = "FAILED"
           THEN RetTrade(p, [q EXCEPT !.att.status = "Failed"],
                         Fail("Transaction failed after submission"))
           ELSE IF q.i < MaxPolls
           THEN Await(p, [q EXCEPT !.i = @ + 1], "executeTrade_poll")
           ELSE RetTrade(p, [q EXCEPT !.att.status = "Timeout"], TimeoutFailure)

\* one turn of the poll loop: the 2 s timer fires, getTransaction is called and settles
executeTrade_poll(p, status) ==
    /\ Waiting(p, "executeTrade_poll")
    /\ UNCHANGED <<now, supported, blob, authenticationInProgress, lastAuthResult, store>>
    /\ LET q == [procs[p] EXCEPT !.att.polls = @ + 1, !.g.poll = @ + 1,
                                 !.att.settledAt = SettledAt(procs[p].att, status)]
       IN  IF status = "SUCCESS"
           THEN RetTrade(p, [q EXCEPT !.att.status = "Success"], OkHash(RealTxHash))
           ELSE IF status = "FAILED"
           THEN RetTrade(p, [q EXCEPT !.att.status = "Failed"],
                         Fail("Transaction failed after submission"))
           ELSE IF q.i + 1 < MaxPolls
           THEN Await(p, [q EXCEPT !.i = @ + 1], "executeTrade_poll")
           ELSE RetTrade(p, [q EXCEPT !.att.status = "Timeout"], TimeoutFailure)

NetOutcomes == {"ok", "throw"}

SimulateOutcomes == {"ok", "simulationError", "throw"}

SendStatuses == {"SUCCESS", "PENDING", "ERROR", "throw"}

PollStatuses == {"SUCCESS", "FAILED", "NOT_FOUND", "throw"}

authenticateSteps(p) ==
    \/ authenticate_entry(p)
    \/ \E outcome \in AuthenticatorOutcomes : authenticate_get(p, outcome)

executeTradeSteps(p) ==
    \/ \E endpoint \in Endpoints : executeTrade_entry(p, endpoint)
    \/ executeTrade_afterAuth(p)
    \/ \E outcome \in NetOutcomes : executeTrade_getAccount(p, outcome)
    \/ \E outcome \in SimulateOutcomes : executeTrade_simulate(p, outcome)
    \/ \E status \in SendStatuses : executeTrade_send(p, status)
    \/ \E status \in PollStatuses : executeTrade_poll(p, status)

(***************************************************************************)
(* PasskeyService.getKaleBalance                                           *)
(***************************************************************************)
\* what the token contract's `balance` may answer, already divided by 10^7
RealBalances == {500}

getKaleBalance_entry(p) ==
    /\ At(p, "getKaleBalance")
    /\ UNCHANGED <<now, supported, blob, authenticationInProgress, lastAuthResult, store>>
    /\ Call(p, procs[p], "authenticate", "getKaleBalance_afterAuth")

\* authenticate() has returned; up to `await this.server.simulateTransaction(...)`
getKaleBalance_afterAuth(p) ==
    /\ At(p, "getKaleBalance_afterAuth")
    /\ UNCHANGED <<now, supported, blob, authenticationInProgress, lastAuthResult, store>>
    /\ LET q == procs[p]
           authResult == q.ret
       IN  IF authResult.thrown
           THEN Ret(p, q, [Ok EXCEPT !.balance = <<"0">>])
           ELSE IF ~authResult.success \/ authResult.userId = None
           THEN Ret(p, q, Fail("Authentication required"))
           ELSE Await(p, [q EXCEPT !.g.simulate = @ + 1], "getKaleBalance_simulate")

\* simulateTransaction of `balance` settles: "retval" with a value, "noretval", "throw"
getKaleBalance_simulate(p, outcome, balance) ==
    /\ Waiting(p, "getKaleBalance_simulate")
    /\ UNCHANGED <<now, supported, blob, authenticationInProgress, lastAuthResult, store>>
    /\ LET q == procs[p]
       IN  IF outcome = "retval"
           THEN Ret(p, q, [Ok EXCEPT !.balance = NumToString(Num(balance))])
           ELSE Ret(p, q, [Ok EXCEPT !.balance = <<"0">>])

BalanceOutcomes == {"retval", "noretval", "throw"}

getKaleBalanceSteps(p) ==
    \/ getKaleBalance_entry(p)
    \/ getKaleBalance_afterAuth(p)
    \/ \E outcome \in BalanceOutcomes, balance \in RealBalances :
          getKaleBalance_simulate(p, outcome, balance)

(***************************************************************************)
(* store: refreshBalances                                                  *)
(***************************************************************************)
\* set({ kaleBalance: mockBalance, balance: parseFloat(mockBalance) })
ShowMockBalance(st, b) ==
    [st EXCEPT !.kaleBalance = getMockKaleBalance(b),
               !.balance = ParseFloat(getMockKaleBalance(b))]

refreshBalances_entry(p) ==
    /\ At(p, "refreshBalances")
    /\ UNCHANGED <<now, supported, blob, authenticationInProgress, lastAuthResult>>
    /\ LET q == procs[p]
       IN  IF ~store.passkeyAuth.isAuthenticated
           THEN /\ Ret(p, q, Ok)
                /\ UNCHANGED store
           ELSE IF store.simulationMode
           THEN /\ Ret(p, q, Ok)
                /\ store' = [ShowMockBalance(store, blob) EXCEPT !.balanceLoading = FALSE]
           ELSE /\ Call(p, q, "getKaleBalance", "refreshBalances_afterKale")
                /\ store' = [store EXCEPT !.balanceLoading = TRUE]

\* getKaleBalance() has returned
refreshBalances_afterKale(p) ==
    /\ At(p, "refreshBalances_afterKale")
    /\ UNCHANGED <<now, supported, blob, authenticationInProgress, lastAuthResult>>
    /\ LET q == procs[p]
           kaleResult == q.ret
       IN  /\ Ret(p, q, Ok)
           /\ IF ~kaleResult.thrown /\ kaleResult.success /\ kaleResult.balance # <<>>
              THEN store' = [store EXCEPT !.kaleBalance = kaleResult.balance,
                                          !.balance = ParseFloat(kaleResult.balance),
                                          !.balanceLoading = FALSE]
              ELSE store' = [ShowMockBalance(store, blob) EXCEPT !.balanceLoading = FALSE]

refreshBalancesSteps(p) ==
    \/ refreshBalances_entry(p)
    \/ refreshBalances_afterKale(p)

(***************************************************************************)
(* store: getCurrentPrices (PasskeyService.getPrices behind it)            *)
(***************************************************************************)
getCurrentPrices_entry(p) ==
    /\ At(p, "getCurrentPrices")
    /\ UNCHANGED <<now, supported, blob, authenticationInProgress, lastAuthResult, store>>
    /\ Await(p, [procs[p] EXCEPT !.g.simulate = @ + 1], "getCurrentPrices_getPrices")

\* getPrices settles: with prices (the oracle's or the service's fallback), or failing,
\* when the store puts its own defaults
getCurrentPrices_getPrices(p, outcome) ==
    /\ Waiting(p, "getCurrentPrices_getPrices")
    /\ UNCHANGED <<now, supported, blob, authenticationInProgress, lastAuthResult>>
    /\ store' = [store EXCEPT !.currentPrices =
                    IF outcome = "prices" THEN Some("prices") ELSE Some("defaults")]
    /\ Ret(p, procs[p], Ok)

PricesOutcomes == {"prices", "error"}

getCurrentPricesSteps(p) ==
    \/ getCurrentPrices_entry(p)
    \/ \E outcome \in PricesOutcomes : getCurrentPrices_getPrices(p, outcome)

(***************************************************************************)
(* PasskeyService.register and createAndFundStellarAccount                 *)
(***************************************************************************)
\* up to `await navigator.credentials.create(...)`; userId is the username given or
\* the one generated
register_entry(p, userId) ==
    /\ At(p, "register")
    /\ UNCHANGED <<now, supported, blob, authenticationInProgress, lastAuthResult, store>>
    /\ LET q == procs[p]
       IN  IF ~supported
           THEN Ret(p, q, Fail("WebAuthn is not supported on this device"))
           ELSE Await(p, [q EXCEPT !.userId = userId, !.g.prompts = @ + 1], "register_create")

RegisterFailure(outcome) ==
    IF outcome = "NotAllowedError" THEN Fail("Registration was cancelled or not allowed")
    ELSE IF outcome = "NotSupportedError"
    THEN Fail("Passkeys are not supported on this device")
    ELSE Fail("Failed to create credential")

\* navigator.credentials.create settles; the new identity is persisted and
\* createAndFundStellarAccount asks for the account
register_create(p, outcome) ==
    /\ Waiting(p, "register_create")
    /\ UNCHANGED <<now, supported, authenticationInProgress, lastAuthResult, store>>
    /\ LET q == procs[p]
       IN  IF outcome = "ok"
           THEN /\ blob' = Some(NewAuthData(q.userId))
                /\ Await(p, [q EXCEPT !.g.getAccount = @ + 1], "register_getAccount")
           ELSE /\ UNCHANGED blob
                /\ Ret(p, [q EXCEPT !.userId = None], RegisterFailure(outcome))

\* createAndFundStellarAccount: getAccount settles ("ok": the account exists)
register_getAccount(p, outcome) ==
    /\ Waiting(p, "register_getAccount")
    /\ UNCHANGED <<now, supported, blob, authenticationInProgress, lastAuthResult, store>>
    /\ LET q == procs[p]
       IN  IF outcome = "ok"
           THEN Ret(p, [q EXCEPT !.userId = None], OkUser(q.userId))
           ELSE Await(p, q, "register_friendbot")

\* createAndFundStellarAccount: the Friendbot fetch settles
register_friendbot(p, outcome) ==
    /\ Waiting(p, "register_friendbot")
    /\ UNCHANGED <<now, supported, blob, authenticationInProgress, lastAuthResult, store>>
    /\ LET q == procs[p]
       IN  IF outcome = "ok"
           THEN Await(p, [q EXCEPT !.g.getAccount = @ + 1], "register_verify")
           ELSE IF outcome = "notOk"
           THEN Ret(p, [q EXCEPT !.userId = None], Fail("Friendbot failed"))
           ELSE Ret(p, [q EXCEPT !.userId = None], Fail("Failed to fetch"))

\* createAndFundStellarAccount: after 3 s the account is asked for again
register_verify(p, outcome) ==
    /\ Waiting(p, "register_verify")
    /\ UNCHANGED <<now, supported, blob, authenticationInProgress, lastAuthResult, store>>
    /\ LET q == procs[p]
       IN  IF outcome = "ok"
           THEN Ret(p, [q EXCEPT !.userId = None], OkUser(q.userId))
           ELSE Ret(p, [q EXCEPT !.userId = None], Fail("Account not found"))

CreateOutcomes == {"ok", "NotAllowedError", "NotSupportedError", "null"}

FetchOutcomes == {"ok", "notOk", "throw"}

registerSteps(p) ==
    \/ \E userId \in UserIds : register_entry(p, userId)
    \/ \E outcome \in CreateOutcomes : register_create(p, outcome)
    \/ \E outcome \in NetOutcomes : register_getAccount(p, outcome)
    \/ \E outcome \in FetchOutcomes : register_friendbot(p, outcome)
    \/ \E outcome \in NetOutcomes : register_verify(p, outcome)

(***************************************************************************)
(* store: registerPasskey                                                  *)
(***************************************************************************)
InProgress == Fail("Another operation is in progress")

\* registerPasskey_entry without the operationInProgress check
registerPasskey_entry_unguarded(p) ==
    /\ At(p, "registerPasskey")
    /\ UNCHANGED <<now, supported, blob, authenticationInProgress, lastAuthResult>>
    /\ Call(p, procs[p], "register", "registerPasskey_afterRegister")
    /\ store' = [store EXCEPT !.operationInProgress = TRUE]

registerPasskey_entry(p) ==
    /\ At(p, "registerPasskey")
    /\ UNCHANGED <<now, supported, blob, authenticationInProgress, lastAuthResult>>
    /\ LET q == procs[p]
       IN  IF store.operationInProgress
           THEN /\ Ret(p, q, InProgress)
                /\ UNCHANGED store
           ELSE /\ Call(p, q, "register", "registerPasskey_afterRegister")
                /\ store' = [store EXCEPT !.operationInProgress = TRUE]

\* register() has returned
registerPasskey_afterRegister(p) ==
    /\ At(p, "registerPasskey_afterRegister")
    /\ UNCHANGED <<now, supported, blob, authenticationInProgress, lastAuthResult>>
    /\ LET q == procs[p]
           result == q.ret
       IN  IF result.thrown
           THEN /\ Ret(p, q, Fail(result.error))
                /\ store' = [store EXCEPT !.operationInProgress = FALSE]
           ELSE IF result.success
           THEN /\ Call(p, [q EXCEPT !.result = result], "refreshBalances",
                        "registerPasskey_afterRefresh")
                /\ store' = [store EXCEPT !.passkeyAuth = getAuthStatus(blob, now),
                                          !.isConnected = TRUE]
           ELSE /\ Ret(p, q, result)
                /\ store' = [store EXCEPT !.operationInProgress = FALSE]

registerPasskey_afterRefresh(p) ==
    /\ At(p, "registerPasskey_afterRefresh")
    /\ UNCHANGED <<now, supported, blob, authenticationInProgress, lastAuthResult, store>>
    /\ Call(p, procs[p], "getCurrentPrices", "registerPasskey_afterPrices")

\* registerPasskey_afterPrices without the finally block
registerPasskey_afterPrices_noFinally(p) ==
    /\ At(p, "registerPasskey_afterPrices")
    /\ UNCHANGED <<now, supported, blob, authenticationInProgress, lastAuthResult, store>>
    /\ Ret(p, [procs[p] EXCEPT !.result = NoRes], procs[p].result)

\* return result; finally { set({ operationInProgress: false }) }
registerPasskey_afterPrices(p) ==
    /\ At(p, "registerPasskey_afterPrices")
    /\ UNCHANGED <<now, supported, blob, authenticationInProgress, lastAuthResult>>
    /\ store' = [store EXCEPT !.operationInProgress = FALSE]
    /\ Ret(p, [procs[p] EXCEPT !.result = NoRes], procs[p].result)

registerPasskeySteps(p) ==
    \/ registerPasskey_entry(p)
    \/ registerPasskey_afterRegister(p)
    \/ registerPasskey_afterRefresh(p)
    \/ registerPasskey_afterPrices(p)

(***************************************************************************)
(* store: authenticateWithPasskey                                          *)
(***************************************************************************)
authenticateWithPasskey_entry(p) ==
    /\ At(p, "authenticateWithPasskey")
    /\ UNCHANGED <<now, supported, blob, authenticationInProgress, lastAuthResult>>
    /\ LET q == procs[p]
           currentAuth == getAuthStatus(blob, now)
       IN  IF store.operationInProgress
           THEN /\ Ret(p, q, InProgress)
                /\ UNCHANGED store
           ELSE /\ store' = [store EXCEPT !.operationInProgress = TRUE]
                /\ IF currentAuth.userId = None
                   THEN Call(p, q, "registerPasskey", "authenticateWithPasskey_afterRegister")
                   ELSE Call(p, q, "authenticate", "authenticateWithPasskey_afterAuth")

\* get().registerPasskey() has returned: return result; finally clears the lock
authenticateWithPasskey_afterRegister(p) ==
    /\ At(p, "authenticateWithPasskey_afterRegister")
    /\ UNCHANGED <<now, supported, blob, authenticationInProgress, lastAuthResult>>
    /\ store' = [store EXCEPT !.operationInProgress = FALSE]
    /\ Ret(p, procs[p], IF procs[p].ret.thrown THEN Fail(procs[p].ret.error) ELSE procs[p].ret)

\* authenticateWithPasskey_afterAuth without the catch: what authenticate() throws
\* goes on to the caller, past the finally
authenticateWithPasskey_afterAuth_uncaught(p) ==
    /\ At(p, "authenticateWithPasskey_afterAuth")
    /\ UNCHANGED <<now, supported, blob, authenticationInProgress, lastAuthResult>>
    /\ LET q == procs[p]
           result == q.ret
       IN  IF result.success
           THEN /\ Call(p, [q EXCEPT !.result = result], "refreshBalances",
                        "authenticateWithPasskey_afterRefresh")
                /\ store' = [store EXCEPT !.passkeyAuth = getAuthStatus(blob, now),
                                          !.isConnected = TRUE]
           ELSE /\ Ret(p, q, result)
                /\ store' = [store EXCEPT !.operationInProgress = FALSE]

\* passkeyService.authenticate() has returned
authenticateWithPasskey_afterAuth(p) ==
    /\ At(p, "authenticateWithPasskey_afterAuth")
    /\ UNCHANGED <<now, supported, blob, authenticationInProgress, lastAuthResult>>
    /\ LET q == procs[p]
           result == q.ret
       IN  IF result.thrown
           THEN /\ Ret(p, q, Fail(result.error))
                /\ store' = [store EXCEPT !.operationInProgress = FALSE]
           ELSE IF result.success
           THEN /\ Call(p, [q EXCEPT !.result = result], "refreshBalances",
                        "authenticateWithPasskey_afterRefresh")
                /\ store' = [store EXCEPT !.passkeyAuth = getAuthStatus(blob, now),
                                          !.isConnected = TRUE]
           ELSE /\ Ret(p, q, result)
                /\ store' = [store EXCEPT !.operationInProgress = FALSE]

authenticateWithPasskey_afterRefresh(p) ==
    /\ At(p, "authenticateWithPasskey_afterRefresh")
    /\ UNCHANGED <<now, supported, blob, authenticationInProgress, lastAuthResult, store>>
    /\ Call(p, procs[p], "getCurrentPrices", "authenticateWithPasskey_afterPrices")

\* return result; finally { set({ operationInProgress: false }) }
authenticateWithPasskey_afterPrices(p) ==
    /\ At(p, "authenticateWithPasskey_afterPrices")
    /\ UNCHANGED <<now, supported, blob, authenticationInProgress, lastAuthResult>>
    /\ store' = [store EXCEPT !.operationInProgress = FALSE]
    /\ Ret(p, [procs[p] EXCEPT !.result = NoRes], procs[p].result)

authenticateWithPasskeySteps(p) ==
    \/ authenticateWithPasskey_entry(p)
    \/ authenticateWithPasskey_afterRegister(p)
    \/ authenticateWithPasskey_afterAuth(p)
    \/ authenticateWithPasskey_afterRefresh(p)
    \/ authenticateWithPasskey_afterPrices(p)

(***************************************************************************)
(* store: checkPasskeyStatus                                               *)
(***************************************************************************)
checkPasskeyStatus_entry(p) ==
    /\ At(p, "checkPasskeyStatus")
    /\ UNCHANGED <<now, supported, blob, authenticationInProgress, lastAuthResult>>
    /\ LET q == procs[p]
           authStatus == getAuthStatus(blob, now)
           isConnected == authStatus.isAuthenticated
       IN  IF store.operationInProgress
           THEN /\ Ret(p, q, Ok)
                /\ UNCHANGED store
           ELSE IF isConnected
           THEN /\ Call(p, q, "refreshBalances", "checkPasskeyStatus_afterRefresh")
                /\ store' = [store EXCEPT !.passkeyAuth = authStatus,
                                          !.isConnected = isConnected,
                                          !.operationInProgress = TRUE]
           ELSE /\ Ret(p, q, Ok)
                /\ store' = [store EXCEPT !.passkeyAuth = authStatus,
                                          !.isConnected = isConnected]

checkPasskeyStatus_afterRefresh(p) ==
    /\ At(p, "checkPasskeyStatus_afterRefresh")
    /\ UNCHANGED <<now, supported, blob, authenticationInProgress, lastAuthResult, store>>
    /\ Call(p, procs[p], "getCurrentPrices", "checkPasskeyStatus_afterPrices")

\* finally { set({ operationInProgress: false }) }
checkPasskeyStatus_afterPrices(p) ==
    /\ At(p, "checkPasskeyStatus_afterPrices")
    /\ UNCHANGED <<now, supported, blob, authenticationInProgress, lastAuthResult>>
    /\ store' = [store EXCEPT !.operationInProgress = FALSE]
    /\ Ret(p, procs[p], Ok)

checkPasskeyStatusSteps(p) ==
    \/ checkPasskeyStatus_entry(p)
    \/ checkPasskeyStatus_afterRefresh(p)
    \/ checkPasskeyStatus_afterPrices(p)

(***************************************************************************)
(* store: signOutPasskey, with PasskeyService.clearAuth.  It is            *)
(* synchronous: it runs whenever the thread is free.                       *)
(***************************************************************************)
\* SignedOutStore without the reset of the simulation mode
SignedOutStore_keepsSimulationMode(st) ==
    [st EXCEPT !.passkeyAuth = [isAuthenticated |-> FALSE, userId |-> None],
               !.isConnected = FALSE,
               !.balance = Num(0),
               !.kaleBalance = <<"0">>,
               !.stellarBalance = <<"0">>,
               !.positions = <<>>,
               !.vaultInfo = Null,
               !.currentPrices = Null,
               !.operationInProgress = FALSE,
               !.orderSize = <<>>,
               !.orderPrice = <<>>,
               !.leverage = 1]

\* the store after signOutPasskey's set({...})
SignedOutStore(st) ==
    [st EXCEPT !.passkeyAuth = [isAuthenticated |-> FALSE, userId |-> None],
               !.isConnected = FALSE,
               !.balance = Num(0),
               !.kaleBalance = <<"0">>,
               !.stellarBalance = <<"0">>,
               !.positions = <<>>,
               !.vaultInfo = Null,
               !.currentPrices = Null,
               !.operationInProgress = FALSE,
               !.orderSize = <<>>,
               !.orderPrice = <<>>,
               !.leverage = 1,
               !.simulationMode = FALSE]

signOutPasskey ==
    /\ running = None
    /\ blob' = Null
    /\ lastAuthResult' = Null
    /\ authenticationInProgress' = FALSE
    /\ store' = SignedOutStore(store)
    /\ last' = [NoLast EXCEPT !.op = "signOutPasskey", !.args = Form(store)]
    /\ UNCHANGED <<now, supported, procs, running>>

(***************************************************************************)
(* PasskeyService.simulateTradeSuccess and executeTradeWithSimulation      *)
(***************************************************************************)
\* generateMockTxHash: for (let i = 0; i < 64; i++)
MockTxHashLen == 64

HexChars == <<"a", "b", "c", "d", "e", "f", "0", "1", "2", "3", "4", "5", "6", "7", "8", "9">>

\* generateMockTxHash(), with pick[i] what Math.floor(Math.random() * chars.length)
\* gives in turn i
generateMockTxHash(pick) == [i \in 1..MockTxHashLen |-> HexChars[pick[i] + 1]]

\* the runs of Math.random the model draws: one value throughout, or two in turn
RandomRuns ==
    {[i \in 1..MockTxHashLen |-> IF i % 2 = 1 THEN a ELSE b] : a \in {0, 15}, b \in {0, 6}}

\* up to `await new Promise(resolve => setTimeout(resolve, 2000))`
simulateTradeSuccess_entry(p) ==
    /\ At(p, "simulateTradeSuccess")
    /\ UNCHANGED <<now, supported, blob, authenticationInProgress, lastAuthResult, store>>
    /\ Await(p, procs[p], "simulateTradeSuccess_delay")

\* the timer fires
simulateTradeSuccess_delay(p, pick) ==
    /\ Waiting(p, "simulateTradeSuccess_delay")
    /\ UNCHANGED <<now, supported, blob, authenticationInProgress, lastAuthResult, store>>
    /\ Ret(p, procs[p], OkHash(generateMockTxHash(pick)))

simulateTradeSuccessSteps(p) ==
    \/ simulateTradeSuccess_entry(p)
    \/ \E pick \in RandomRuns : simulateTradeSuccess_delay(p, pick)

FallbackNote == "Real transaction failed, showing simulated success for demonstration"

executeTradeWithSimulation_entry(p) ==
    /\ At(p, "executeTradeWithSimulation")
    /\ UNCHANGED <<now, supported, blob, authenticationInProgress, lastAuthResult, store>>
    /\ LET q == procs[p]
       IN  IF q.force
           THEN Call(p, q, "simulateTradeSuccess", "executeTradeWithSimulation_return")
           ELSE Call(p, q, "executeTrade", "executeTradeWithSimulation_afterReal")

\* executeTrade() has returned
executeTradeWithSimulation_afterReal(p) ==
    /\ At(p, "executeTradeWithSimulation_afterReal")
    /\ UNCHANGED <<now, supported, blob, authenticationInProgress, lastAuthResult, store>>
    /\ LET q == procs[p]
           realResult == q.ret
       IN  IF realResult.thrown
           THEN Call(p, q, "simulateTradeSuccess", "executeTradeWithSimulation_return")
           ELSE IF realResult.success
           THEN Ret(p, q, realResult)
           ELSE Call(p, q, "simulateTradeSuccess", "executeTradeWithSimulation_afterSim")

\* executeTradeWithSimulation_afterSim without the note on the result
executeTradeWithSimulation_afterSim_untagged(p) ==
    /\ At(p, "executeTradeWithSimulation_afterSim")
    /\ UNCHANGED <<now, supported, blob, authenticationInProgress, lastAuthResult, store>>
    /\ Ret(p, procs[p], procs[p].ret)

\* the fallback's simulateTradeSuccess() has returned
executeTradeWithSimulation_afterSim(p) ==
    /\ At(p, "executeTradeWithSimulation_afterSim")
    /\ UNCHANGED <<now, supported, blob, authenticationInProgress, lastAuthResult, store>>
    /\ LET q == procs[p]
           simulationResult == q.ret
       IN  Ret(p, q, [simulationResult EXCEPT !.error =
                         IF simulationResult.success THEN FallbackNote ELSE @])

\* return this.simulateTradeSuccess(...)
executeTradeWithSimulation_return(p) ==
    /\ At(p, "executeTradeWithSimulation_return")
    /\ UNCHANGED <<now, supported, blob, authenticationInProgress, lastAuthResult, store>>
    /\ Ret(p, procs[p], procs[p].ret)

executeTradeWithSimulationSteps(p) ==
    \/ executeTradeWithSimulation_entry(p)
    \/ executeTradeWithSimulation_afterReal(p)
    \/ executeTradeWithSimulation_afterSim(p)
    \/ executeTradeWithSimulation_return(p)

(***************************************************************************)
(* store: executeSmartContractTrade                                        *)
(***************************************************************************)
\* the words of a message; the messages with more than one word that reach an
\* includes() test are spelled out
Words(msg) ==
    IF msg = FallbackNote
    THEN <<"Real", "transaction", "failed,", "showing", "simulated", "success", "for",
           "demonstration">>
    ELSE <<msg>>

\* msg?.includes(w1 + ' ' + w2): false for a missing message
Includes(msg, w1, w2) ==
    /\ msg # ""
    /\ \E k \in 1..(Len(Words(msg)) - 1) : Words(msg)[k] = w1 /\ Words(msg)[k + 1] = w2

\* executeSmartContractTrade_mock that leaves the balance shown as it was
executeSmartContractTrade_mock_noDisplay(p, q, result) ==
    /\ blob' = updateMockBalance(blob, q.amount)
    /\ store' = [store EXCEPT !.orderLoading = FALSE]
    /\ Ret(p, [q EXCEPT !.g.ledger = @ + 1], result)

\* passkeyService.updateMockBalance(amount), then the balance shown is the mock one
executeSmartContractTrade_mock(p, q, result) ==
    /\ blob' = updateMockBalance(blob, q.amount)
    /\ store' = [ShowMockBalance(store, blob') EXCEPT !.orderLoading = FALSE]
    /\ Ret(p, [q EXCEPT !.g.ledger = @ + 1], result)

executeSmartContractTrade_entry(p) ==
    /\ At(p, "executeSmartContractTrade")
    /\ UNCHANGED <<now, supported, blob, authenticationInProgress, lastAuthResult>>
    /\ LET q == [procs[p] EXCEPT !.force = store.simulationMode]
       IN  IF ~store.passkeyAuth.isAuthenticated
           THEN /\ Ret(p, procs[p], Fail("Please authenticate with your passkey first"))
                /\ UNCHANGED store
           ELSE IF q.amount = <<>> \/ NumLe(ParseFloat(q.amount), Num(0))
           THEN /\ Ret(p, procs[p], Fail("Please enter a valid trade amount"))
                /\ UNCHANGED store
           ELSE IF InvalidLeverage(q.leverage)
           THEN /\ Ret(p, procs[p], Fail("Leverage must be between 1x and 100x"))
                /\ UNCHANGED store
           ELSE /\ Call(p, q, "executeTradeWithSimulation", "executeSmartContractTrade_afterTrade")
                /\ store' = [store EXCEPT !.orderLoading = TRUE]

\* executeTradeWithSimulation() has returned
executeSmartContractTrade_afterTrade(p) ==
    /\ At(p, "executeSmartContractTrade_afterTrade")
    /\ UNCHANGED <<now, supported, authenticationInProgress, lastAuthResult>>
    /\ LET q == [procs[p] EXCEPT !.force = FALSE]
           simulationMode == procs[p].force
           result == procs[p].ret
       IN  IF result.thrown
           THEN /\ Ret(p, q, Fail(result.error))
                /\ store' = [store EXCEPT !.orderLoading = FALSE]
                /\ UNCHANGED blob
           ELSE IF simulationMode /\ result.success
           THEN executeSmartContractTrade_mock(p, q, result)
           ELSE IF ~simulationMode /\ result.success
                   /\ ~Includes(result.error, "Demo", "mode")
           THEN /\ Call(p, [q EXCEPT !.result = result], "refreshBalances",
                        "executeSmartContractTrade_afterRefresh")
                /\ UNCHANGED <<store, blob>>
           ELSE IF ~simulationMode /\ result.success
                   /\ Includes(result.error, "Demo", "mode")
           THEN executeSmartContractTrade_mock(p, q, result)
           ELSE /\ Ret(p, q, result)
                /\ store' = [store EXCEPT !.orderLoading = FALSE]
                /\ UNCHANGED blob

\* return result; finally { set({ orderLoading: false }) }
executeSmartContractTrade_afterRefresh(p) ==
    /\ At(p, "executeSmartContractTrade_afterRefresh")
    /\ UNCHANGED <<now, supported, blob, authenticationInProgress, lastAuthResult>>
    /\ store' = [store EXCEPT !.orderLoading = FALSE]
    /\ Ret(p, [procs[p] EXCEPT !.result = NoRes], procs[p].result)

executeSmartContractTradeSteps(p) ==
    \/ executeSmartContractTrade_entry(p)
    \/ executeSmartContractTrade_afterTrade(p)
    \/ executeSmartContractTrade_afterRefresh(p)

(***************************************************************************)
(* store: placeOrder                                                       *)
(***************************************************************************)
\* if (!orderSize || parseFloat(orderSize) <= 0)
InvalidOrderSize(orderSize) == orderSize = <<>> \/ NumLe(ParseFloat(orderSize), Num(0))

placeOrder_entry(p) ==
    /\ At(p, "placeOrder")
    /\ UNCHANGED <<now, supported, blob, authenticationInProgress, lastAuthResult, store>>
    /\ LET q == procs[p]
           market == store.baseAsset
       IN  IF InvalidOrderSize(store.orderSize)
           THEN Ret(p, q, Fail("Please enter a valid order size"))
           ELSE IF InvalidLeverage(store.leverage)
           THEN Ret(p, q, Fail("Leverage must be between 1x and 100x"))
           ELSE IF market \in supportedMarkets
           THEN Call(p, [q EXCEPT !.market = market, !.amount = store.orderSize,
                                  !.leverage = store.leverage],
                     "executeSmartContractTrade", "placeOrder_afterTrade")
           ELSE Ret(p, q, Fail("Market not supported for smart contract trading"))

\* executeSmartContractTrade() has returned
placeOrder_afterTrade(p) ==
    /\ At(p, "placeOrder_afterTrade")
    /\ UNCHANGED <<now, supported, blob, authenticationInProgress, lastAuthResult>>
    /\ LET q == procs[p]
           smartContractResult == q.ret
       IN  /\ Ret(p, q, smartContractResult)
           /\ IF smartContractResult.success
              THEN store' = [store EXCEPT !.orderSize = <<>>, !.orderPrice = <<>>]
              ELSE UNCHANGED store

placeOrderSteps(p) ==
    \/ placeOrder_entry(p)
    \/ placeOrder_afterTrade(p)

(***************************************************************************)
(* store: the setters, and loadVaultInfo with PasskeyService.getVaultInfo. *)
(* They run whenever the thread is free.                                   *)
(***************************************************************************)
Setter(st) ==
    /\ running = None
    /\ store' = st
    /\ last' = NoLast
    /\ UNCHANGED <<now, supported, blob, authenticationInProgress, lastAuthResult, procs,
                   running>>

setOrderSize(size) == Setter([store EXCEPT !.orderSize = size])

setOrderPrice(price) == Setter([store EXCEPT !.orderPrice = price])

setLeverage(leverage) == Setter([store EXCEPT !.leverage = leverage])

setPair(baseAsset) == Setter([store EXCEPT !.baseAsset = baseAsset])

setSimulationMode(enabled) == Setter([store EXCEPT !.simulationMode = enabled])

\* getMockVaultData() of a blob without mockVaultData
DefaultVaultData ==
    [totalLiquidity |-> Num(150000), userShares |-> Num(0), apy |-> Frac(25, 2),
     totalShares |-> Num(100000), userDeposited |-> Num(0)]

getMockVaultData(b) ==
    IF b # Null /\ b[1].mockVaultData # Null THEN b[1].mockVaultData[1] ELSE DefaultVaultData

\* getVaultInfo().vaultInfo
getVaultInfo(b) ==
    LET vaultData == getMockVaultData(b)
    IN  [totalLiquidity |-> vaultData.totalLiquidity, userShares |-> vaultData.userShares,
         apy |-> vaultData.apy, totalShares |-> vaultData.totalShares]

\* the store after loadVaultInfo: getVaultInfo awaits nothing outside, so that
\* loadVaultInfo runs in one piece
LoadedVaultInfo(st, b) ==
    IF ~st.passkeyAuth.isAuthenticated THEN st
    ELSE [st EXCEPT !.vaultInfo = Some(getVaultInfo(b)), !.vaultLoading = FALSE]

loadVaultInfo == Setter(LoadedVaultInfo(store, blob))

(***************************************************************************)
(* SpecTrade: a registered user; callers invoke the two real trade         *)
(* functions of the service, concurrently, while the clock advances.       *)
(***************************************************************************)
TradeArgs(market, amount, leverage) ==
    [market |-> market, amount |-> amount, price |-> <<>>, leverage |-> leverage,
     sim |-> FALSE, registered |-> FALSE, valid |-> FALSE, before |-> <<>>]

\* the call's arguments are built when the call is made
StartExecuteTrade(p, endpoint, amount) ==
    /\ Start(p, TradeFn(endpoint), TradeArgs("XLM", amount, 10))
    /\ UNCHANGED <<now, supported, blob, authenticationInProgress, lastAuthResult, store>>

\* the amounts the callers pass: a positive one and one the validation rejects
TradeAmounts == {<<"3", "0", "0">>, <<"0">>}

InitTrade ==
    /\ now = 1
    /\ supported = TRUE
    /\ blob \in {Some(NewAuthData("u1")), Some([NewAuthData("u1") EXCEPT !.lastAuth = 1])}
    /\ authenticationInProgress = FALSE
    /\ lastAuthResult = Null
    /\ store = InitialStore
    /\ procs = [p \in Procs |-> IdleProc]
    /\ running = None
    /\ last = NoLast

NextTrade ==
    \/ Tick
    \/ \E p \in Procs, endpoint \in Endpoints, amount \in TradeAmounts :
          StartExecuteTrade(p, endpoint, amount)
    \/ \E p \in Procs : authenticateSteps(p)
    \/ \E p \in Procs : executeTradeSteps(p)

SpecTrade == InitTrade /\ [][NextTrade]_vars

(***************************************************************************)
(* C1: in executeTrade and executeTradeViaSubmit, an attempt whose         *)
(* simulateTransaction reported a simulation error is never signed, never  *)
(* handed to sendTransaction, and returns success = false.                 *)
(***************************************************************************)
SimErrorStopsAttempt(a) ==
    a.simError => /\ ~a.signed
                  /\ ~a.sent
                  /\ a.status = "Built"
                  /\ a.done
                  /\ ~a.res.success

C1_SimulationErrorNeverSigned ==
    /\ \A p \in Procs : SimErrorStopsAttempt(procs[p].att)
    /\ SimErrorStopsAttempt(last.att)
    /\ last.att.simError => last.g.sign = 0 /\ last.g.send = 0 /\ ~last.res.success

\* executeTradeViaSubmit has returned after a simulation error
C1_Witness ==
    /\ last.op = "executeTradeViaSubmit"
    /\ last.att.simError
    /\ last.att.endpoint = "submit"
    /\ last.g.simulate = 1

(***************************************************************************)
(* SpecAuth: the store's authentication operations, called concurrently    *)
(* by the components while the clock advances.                             *)
(***************************************************************************)
StartAuthOp(p, op) ==
    /\ Start(p, op, [NoArgs EXCEPT !.registered =
                                       (op = "authenticateWithPasskey" /\ blob # Null)])
    /\ UNCHANGED <<now, supported, blob, authenticationInProgress, lastAuthResult, store>>

AuthOps == {"registerPasskey", "authenticateWithPasskey", "checkPasskeyStatus"}

NextAuth ==
    \/ signOutPasskey
    \/ \E p \in Procs, op \in AuthOps : StartAuthOp(p, op)
    \/ \E p \in Procs : registerPasskeySteps(p)
    \/ \E p \in Procs : authenticateWithPasskeySteps(p)
    \/ \E p \in Procs : checkPasskeyStatusSteps(p)
    \/ \E p \in Procs : registerSteps(p)
    \/ \E p \in Procs : authenticateSteps(p)
    \/ \E p \in Procs : refreshBalancesSteps(p)
    \/ \E p \in Procs : getKaleBalanceSteps(p)
    \/ \E p \in Procs : getCurrentPricesSteps(p)

SpecAuth == Init /\ [][NextAuth]_vars

(***************************************************************************)
(* SpecSession: SpecAuth with the clock advancing, so that sessions age    *)
(* and expire.                                                             *)
(***************************************************************************)
NextSession ==
    \/ Tick
    \/ NextAuth

SpecSession == Init /\ [][NextSession]_vars

(***************************************************************************)
(* SpecOrder: the trading panel.  The user, signed in a day ago (the       *)
(* session has just expired, the store has not noticed), edits the order   *)
(* form, switches the simulation mode, loads the vault, places orders and  *)
(* signs out.                                                              *)
(***************************************************************************)
\* the store once authenticateWithPasskey has succeeded for u1 at time 1
ConnectedStore ==
    [InitialStore EXCEPT !.passkeyAuth = [isAuthenticated |-> TRUE, userId |-> "u1"],
                         !.isConnected = TRUE,
                         !.kaleBalance = <<"5", "0", "0">>,
                         !.balance = Num(500),
                         !.currentPrices = Some("prices")]

InitOrder ==
    /\ now = 1 + MaxAge
    /\ supported = TRUE
    /\ blob = Some([NewAuthData("u1") EXCEPT !.lastAuth = 1])
    /\ authenticationInProgress = FALSE
    /\ lastAuthResult = Some(OkUser("u1"))
    /\ store = ConnectedStore
    /\ procs = [p \in Procs |-> IdleProc]
    /\ running = None
    /\ last = NoLast

\* what the user may type into the order form
OrderSizes == {<<>>, <<"0">>, <<"-", "5">>, <<"5", "0", "0">>}

OrderPrices == {<<>>, <<"1">>}

Leverages == {0, 10, 101}

BaseAssets == {"XLM", "DOGE"}

\* orders are placed one at a time
OrderProcs == {"p1"}

\* the order form is edited between orders, the simulation mode at any time
BetweenOrders == \A p \in Procs : Idle(p)

\* placeOrder() is called; the record of the call keeps the form as it was
StartPlaceOrder(p) ==
    /\ Start(p, "placeOrder", [Form(store) EXCEPT !.valid = SessionValid(blob, now)])
    /\ UNCHANGED <<now, supported, blob, authenticationInProgress, lastAuthResult, store>>

NextOrder ==
    \/ \E size \in OrderSizes : BetweenOrders /\ setOrderSize(size)
    \/ \E price \in OrderPrices : BetweenOrders /\ setOrderPrice(price)
    \/ \E leverage \in Leverages : BetweenOrders /\ setLeverage(leverage)
    \/ \E baseAsset \in BaseAssets : BetweenOrders /\ setPair(baseAsset)
    \/ \E enabled \in BOOLEAN : setSimulationMode(enabled)
    \/ loadVaultInfo
    \/ signOutPasskey
    \/ \E p \in OrderProcs : StartPlaceOrder(p)
    \/ \E p \in Procs : placeOrderSteps(p)
    \/ \E p \in Procs : executeSmartContractTradeSteps(p)
    \/ \E p \in Procs : executeTradeWithSimulationSteps(p)
    \/ \E p \in Procs : simulateTradeSuccessSteps(p)
    \/ \E p \in Procs : executeTradeSteps(p)
    \/ \E p \in Procs : authenticateSteps(p)
    \/ \E p \in Procs : refreshBalancesSteps(p)
    \/ \E p \in Procs : getKaleBalanceSteps(p)

SpecOrder == InitOrder /\ [][NextOrder]_vars

(***************************************************************************)
(* C2: for every order whose size is empty or <= 0, or whose leverage is   *)
(* < 1 or > 100, placeOrder returns success = false having made no network *)
(* call (getAccount, simulateTransaction, sendTransaction), no             *)
(* authenticator prompt and no change to the simulated ledger, whatever    *)
(* the simulation mode.                                                    *)
(***************************************************************************)
C2_InvalidOrderRejectedFirst ==
    (/\ last.op = "placeOrder"
     /\ \/ last.args.amount = <<>>
        \/ NumLe(ParseFloat(last.args.amount), Num(0))
        \/ last.args.leverage < 1
        \/ last.args.leverage > 100)
    => /\ ~last.res.success
       /\ last.g.getAccount = 0
       /\ last.g.simulate = 0
       /\ last.g.send = 0
       /\ last.g.poll = 0
       /\ last.g.prompts = 0
       /\ last.g.ledger = 0

\* an order with a good size and leverage 101 was rejected in simulation mode
C2_Witness ==
    /\ last.op = "placeOrder"
    /\ last.args.sim
    /\ last.args.amount = <<"5", "0", "0">>
    /\ last.args.leverage = 101
    /\ last.args.market = "XLM"
    /\ ~last.res.success

(***************************************************************************)
(* C3: if the active pair's base asset is not one of XLM, BTC, ETH,        *)
(* placeOrder returns success = false without calling                      *)
(* executeSmartContractTrade, the network or the simulation engine, and    *)
(* leaves orderSize and orderPrice as they were.                           *)
(***************************************************************************)
C3_UnsupportedMarketRejected ==
    (last.op = "placeOrder" /\ last.args.market \notin {"XLM", "BTC", "ETH"})
    => /\ ~last.res.success
       /\ last.g = G0
       /\ store.orderSize = last.args.amount
       /\ store.orderPrice = last.args.price

\* an order that is good but for its market was rejected
C3_Witness ==
    /\ last.op = "placeOrder"
    /\ last.args.market = "DOGE"
    /\ last.args.amount = <<"5", "0", "0">>
    /\ last.args.price = <<"1">>
    /\ last.args.leverage = 10
    /\ last.res.error = "Market not supported for smart contract trading"

(***************************************************************************)
(* C10: right after signOutPasskey the blob is removed, getAuthStatus      *)
(* reports isAuthenticated = false with no userId, and the store is reset: *)
(* passkeyAuth unauthenticated, isConnected false, balance 0, no           *)
(* positions, vaultInfo null, simulationMode false.                        *)
(***************************************************************************)
C10_SignOutPurges ==
    last.op = "signOutPasskey"
    => /\ blob = Null
       /\ ~getAuthStatus(blob, now).isAuthenticated
       /\ getAuthStatus(blob, now).userId = None
       /\ ~store.passkeyAuth.isAuthenticated
       /\ store.passkeyAuth.userId = None
       /\ ~store.isConnected
       /\ store.balance = Num(0)
       /\ store.positions = <<>>
       /\ store.vaultInfo = Null
       /\ ~store.simulationMode

\* the user signed out in simulation mode while an order was in flight
C10_Witness ==
    /\ last.op = "signOutPasskey"
    /\ last.args.sim
    /\ \E p \in Procs : ~Idle(p)

(***************************************************************************)
(* C4: in every interleaving of registerPasskey, authenticateWithPasskey,  *)
(* checkPasskeyStatus and signOutPasskey, at most one guarded operation    *)
(* (one that passed the operationInProgress check) is in flight, and       *)
(* operationInProgress is true for as long as one is in flight.            *)
(***************************************************************************)
\* the labels a call goes on at while it holds the lock
GuardedLabels ==
    {"registerPasskey_afterRegister", "registerPasskey_afterRefresh",
     "registerPasskey_afterPrices", "authenticateWithPasskey_afterRegister",
     "authenticateWithPasskey_afterAuth", "authenticateWithPasskey_afterRefresh",
     "authenticateWithPasskey_afterPrices", "checkPasskeyStatus_afterRefresh",
     "checkPasskeyStatus_afterPrices"}

Guarded(p) == \E k \in 1..Len(procs[p].stack) : procs[p].stack[k] \in GuardedLabels

C4_OneGuardedOperation ==
    /\ Cardinality({p \in Procs : Guarded(p)}) <= 1
    /\ (\E p \in Procs : Guarded(p)) => store.operationInProgress

(***************************************************************************)
(* C5: whenever operationInProgress is true, a call to registerPasskey     *)
(* returns {success: false, error: 'Another operation is in progress'} at  *)
(* once, without calling PasskeyService.register (no authenticator         *)
(* prompt) and without changing the lock or anything else in the store.    *)
(***************************************************************************)
C5_RegisterRejectedUnderLock ==
    [][\A p \in Procs :
          (At(p, "registerPasskey") /\ store.operationInProgress)
          => /\ store' = store
             /\ blob' = blob
             /\ IF Len(procs[p].stack) = 1
                THEN /\ last'.proc = p
                     /\ last'.op = "registerPasskey"
                     /\ ~last'.res.success
                     /\ last'.res.error = "Another operation is in progress"
                     /\ last'.g = G0
                ELSE /\ procs'[p].stack = Tail(procs[p].stack)
                     /\ ~procs'[p].ret.success
                     /\ procs'[p].ret.error = "Another operation is in progress"
                     /\ procs'[p].g = procs[p].g]_vars

\* registerPasskey was turned away while another call, waiting for the
\* authenticator, holds the lock
C5_Witness ==
    /\ last.op = "registerPasskey"
    /\ last.res.error = "Another operation is in progress"
    /\ store.operationInProgress
    /\ \E p \in Procs : Guarded(p) /\ Head(procs[p].stack) = "register_create"

(***************************************************************************)
(* C6: if authenticate is called while an earlier call is still waiting    *)
(* for the authenticator, the second caller gets the in-flight result: the *)
(* call does not throw and does not return before the authenticator has    *)
(* answered, and the authenticator is prompted once.                       *)
(***************************************************************************)
\* another call of authenticate waits for navigator.credentials.get
FirstCallWaiting(p) ==
    \E o \in Procs \ {p} :
        procs[o].stack # <<>> /\ Head(procs[o].stack) = "authenticate_get"

C6_SecondCallJoinsFirst ==
    [][\A p \in Procs :
          (At(p, "authenticate") /\ FirstCallWaiting(p))
          => /\ Len(procs'[p].stack) >= Len(procs[p].stack)
             /\ procs'[p].g.prompts = procs[p].g.prompts]_vars

(***************************************************************************)
(* C7: if the persisted session is valid (lastAuth set and less than 24 h  *)
(* old), authenticate returns success with the stored identity at once,    *)
(* without prompting the authenticator and without changing the blob.      *)
(***************************************************************************)
C7_ValidSessionShortCircuits ==
    [][\A p \in Procs :
          (/\ At(p, "authenticate")
           /\ blob # Null
           /\ blob[1].lastAuth # 0
           /\ now - blob[1].lastAuth < 24)
          => /\ blob' = blob
             /\ procs'[p].stack = Tail(procs[p].stack)
             /\ procs'[p].ret.success
             /\ ~procs'[p].ret.thrown
             /\ procs'[p].ret.userId = blob[1].userId
             /\ procs'[p].g.prompts = procs[p].g.prompts
             /\ ~authenticationInProgress']_vars

\* executeTrade got its identity from a valid session without a prompt, while
\* the other call's trade is on its way
C7_Witness ==
    \E p \in Procs :
        /\ At(p, "executeTrade_afterAuth")
        /\ procs[p].ret.success
        /\ procs[p].g.prompts = 0
        /\ blob # Null
        /\ blob[1].lastAuth # 0
        /\ now - blob[1].lastAuth < 24
        /\ \E o \in Procs \ {p} : ~Idle(o)

(***************************************************************************)
(* C8: getAuthStatus reports isAuthenticated = true exactly when a blob    *)
(* exists whose lastAuth is set and now - lastAuth < 24 h; with no blob,   *)
(* no lastAuth, or a lastAuth 24 h or more old the session counts as       *)
(* unauthenticated.  Stated of checkPasskeyStatus, which puts what         *)
(* getAuthStatus reports into the store.                                   *)
(***************************************************************************)
C8_AuthStatusIsSessionValidity ==
    [][\A p \in Procs :
          (At(p, "checkPasskeyStatus") /\ ~store.operationInProgress)
          => LET valid == /\ blob # Null
                          /\ blob[1].lastAuth # 0
                          /\ now - blob[1].lastAuth < 24
             IN  /\ store'.passkeyAuth.isAuthenticated = valid
                 /\ store'.isConnected = valid
                 /\ store'.passkeyAuth.userId =
                        IF blob = Null THEN None ELSE blob[1].userId]_vars

\* checkPasskeyStatus found a session exactly 24 h old and reported it
\* unauthenticated
C8_Witness ==
    /\ last.op = "checkPasskeyStatus"
    /\ blob # Null
    /\ blob[1].lastAuth # 0
    /\ now - blob[1].lastAuth = 24
    /\ ~store.passkeyAuth.isAuthenticated
    /\ ~store.isConnected

(***************************************************************************)
(* C9: after registerPasskey returns success the user is authenticated:    *)
(* the persisted session is valid, and the store has                       *)
(* passkeyAuth.isAuthenticated = true together with isConnected = true.    *)
(***************************************************************************)
C9_RegisteredIsAuthenticated ==
    (last.op = "registerPasskey" /\ last.res.success)
    => /\ getAuthStatus(blob, now).isAuthenticated
       /\ store.passkeyAuth.isAuthenticated
       /\ store.isConnected

(***************************************************************************)
(* C11: if no persisted identity exists, authentication (authenticate, and *)
(* the store's authenticateWithPasskey built on it) returns a failure that *)
(* tells the caller to run registration, and the call creates no           *)
(* credential.  Stated of calls made while nothing else is in flight, so   *)
(* that the lock is free when the call is made.                            *)
(***************************************************************************)
C11_NoIdentityAsksForRegistration ==
    (/\ last.op \in {"authenticate", "authenticateWithPasskey"}
     /\ ~last.args.registered
     /\ \A o \in Procs : Idle(o))
    => /\ ~last.res.success
       /\ last.res.error = "No passkey found. Please register first."
       /\ last.g.prompts = 0
       /\ blob = Null

(***************************************************************************)
(* C12: when simulation is not forced and the real trade path fails after  *)
(* authentication (account lookup, simulation error, submission failure,   *)
(* failed or timed-out poll, network exception), the trade returns         *)
(* success = true from the simulated fallback, tagged as a fallback; it    *)
(* never returns a bare failure.                                           *)
(***************************************************************************)
C12_RealFailureFallsBack ==
    (/\ last.op = "placeOrder"
     /\ ~last.args.sim
     /\ last.att.done
     /\ ~last.att.res.success
     /\ last.g.getAccount >= 1)
    => /\ last.res.success
       /\ last.res.error =
             "Real transaction failed, showing simulated success for demonstration"
       /\ Len(last.res.hash) = 64
       /\ "simulateTradeSuccess" \in {last.g.calls[k] : k \in 1..Len(last.g.calls)}

\* an order whose real transaction timed out in the poll loop came back as a
\* tagged simulated success
C12_Witness ==
    /\ last.op = "placeOrder"
    /\ ~last.args.sim
    /\ last.att.status = "Timeout"
    /\ ~last.att.res.success
    /\ last.res.success
    /\ last.res.error # ""

(***************************************************************************)
(* C13: when the real trade path fails because authentication fails        *)
(* (authenticate returns failure inside executeTrade), the trade returns   *)
(* success = false and the simulation fallback is not run.                 *)
(***************************************************************************)
C13_AuthFailureNotMasked ==
    (/\ last.op = "placeOrder"
     /\ ~last.args.sim
     /\ last.att.done
     /\ last.att.res.error = "Authentication required"
     /\ last.g.getAccount = 0)
    => /\ ~last.res.success
       /\ "simulateTradeSuccess" \notin {last.g.calls[k] : k \in 1..Len(last.g.calls)}

(***************************************************************************)
(* C14: placeOrder, depositToVault and withdrawFromVault take effect only  *)
(* while the session is valid: invoked when the persisted session is       *)
(* absent or 24 h or more old, the operation returns failure and touches   *)
(* neither the network nor the simulated ledger.                           *)
(***************************************************************************)
C14_NoEffectWithoutSession ==
    (/\ last.op \in {"placeOrder", "depositToVault", "withdrawFromVault"}
     /\ ~last.args.valid)
    => /\ ~last.res.success
       /\ last.g.getAccount = 0
       /\ last.g.simulate = 0
       /\ last.g.send = 0
       /\ last.g.ledger = 0

(***************************************************************************)
(* PasskeyService.debugContractState: read-only diagnostics around one     *)
(* authenticate(); every error is caught and logged.                       *)
(***************************************************************************)
\* await this.checkContractInitialization(); await this.checkMarketConfiguration()
debugContractState_entry(p) ==
    /\ At(p, "debugContractState")
    /\ UNCHANGED <<now, supported, blob, authenticationInProgress, lastAuthResult, store>>
    /\ Await(p, [procs[p] EXCEPT !.g.simulate = @ + 1], "debugContractState_checks")

\* the checks have settled: const authResult = await this.authenticate()
debugContractState_checks(p) ==
    /\ Waiting(p, "debugContractState_checks")
    /\ UNCHANGED <<now, supported, blob, authenticationInProgress, lastAuthResult, store>>
    /\ Call(p, procs[p], "authenticate", "debugContractState_afterAuth")

\* authenticate() has returned; the empty submit call is simulated
debugContractState_afterAuth(p) ==
    /\ At(p, "debugContractState_afterAuth")
    /\ UNCHANGED <<now, supported, blob, authenticationInProgress, lastAuthResult, store>>
    /\ LET q == procs[p]
           authResult == q.ret
       IN  IF ~authResult.success
           THEN Ret(p, q, Ok)
           ELSE Await(p, [q EXCEPT !.g.simulate = @ + 1], "debugContractState_simulate")

\* the simulation settles, with a result or an error: both are logged
debugContractState_simulate(p) ==
    /\ Waiting(p, "debugContractState_simulate")
    /\ UNCHANGED <<now, supported, blob, authenticationInProgress, lastAuthResult, store>>
    /\ Ret(p, procs[p], Ok)

debugContractStateSteps(p) ==
    \/ debugContractState_entry(p)
    \/ debugContractState_checks(p)
    \/ debugContractState_afterAuth(p)
    \/ debugContractState_simulate(p)

(***************************************************************************)
(* store: executeTradeWithDebug                                            *)
(***************************************************************************)
\* `Both trade methods failed. Submit error: ${...}. Create position error: ${...}`
BothFailed(submitError, originalError) ==
    <<"Both trade methods failed", submitError, originalError>>

\* the checks, set({ orderLoading: true }), and the first attempt
executeTradeWithDebug_entry(p) ==
    /\ At(p, "executeTradeWithDebug")
    /\ UNCHANGED <<now, supported, blob, authenticationInProgress, lastAuthResult>>
    /\ LET q == procs[p]
       IN  IF ~store.passkeyAuth.isAuthenticated
           THEN /\ Ret(p, q, Fail("Please authenticate with your passkey first"))
                /\ UNCHANGED store
           ELSE IF q.amount = <<>> \/ NumLe(ParseFloat(q.amount), Num(0))
           THEN /\ Ret(p, q, Fail("Please enter a valid trade amount"))
                /\ UNCHANGED store
           ELSE IF InvalidLeverage(q.leverage)
           THEN /\ Ret(p, q, Fail("Leverage must be between 1x and 100x"))
                /\ UNCHANGED store
           ELSE /\ Call(p, q, "executeTradeViaSubmit", "executeTradeWithDebug_afterSubmit")
                /\ store' = [store EXCEPT !.orderLoading = TRUE]

\* executeTradeViaSubmit() has returned
executeTradeWithDebug_afterSubmit(p) ==
    /\ At(p, "executeTradeWithDebug_afterSubmit")
    /\ UNCHANGED <<now, supported, blob, authenticationInProgress, lastAuthResult>>
    /\ LET q == procs[p]
           submitResult == q.ret
       IN  IF submitResult.thrown
           THEN /\ Ret(p, q, Fail(submitResult.error))
                /\ store' = [store EXCEPT !.orderLoading = FALSE]
           ELSE IF submitResult.success
           THEN /\ Call(p, [q EXCEPT !.result = OkHash(submitResult.hash)], "refreshBalances",
                        "executeTradeWithDebug_afterRefresh")
                /\ UNCHANGED store
           ELSE /\ Call(p, [q EXCEPT !.result = submitResult], "executeTrade",
                        "executeTradeWithDebug_afterOriginal")
                /\ UNCHANGED store

\* executeTrade() has returned
executeTradeWithDebug_afterOriginal(p) ==
    /\ At(p, "executeTradeWithDebug_afterOriginal")
    /\ UNCHANGED <<now, supported, blob, authenticationInProgress, lastAuthResult>>
    /\ LET q == procs[p]
           submitResult == q.result
           originalResult == q.ret
       IN  IF originalResult.thrown
           THEN /\ Ret(p, [q EXCEPT !.result = NoRes], Fail(originalResult.error))
                /\ store' = [store EXCEPT !.orderLoading = FALSE]
           ELSE IF originalResult.success
           THEN /\ Call(p, [q EXCEPT !.result = OkHash(originalResult.hash)], "refreshBalances",
                        "executeTradeWithDebug_afterRefresh")
                /\ UNCHANGED store
           ELSE /\ Call(p, [q EXCEPT !.result =
                                Fail(BothFailed(submitResult.error, originalResult.error))],
                        "debugContractState", "executeTradeWithDebug_afterRefresh")
                /\ UNCHANGED store

\* refreshBalances() or debugContractState() is over: return; finally
\* { set({ orderLoading: false }) }
executeTradeWithDebug_afterRefresh(p) ==
    /\ At(p, "executeTradeWithDebug_afterRefresh")
    /\ UNCHANGED <<now, supported, blob, authenticationInProgress, lastAuthResult>>
    /\ store' = [store EXCEPT !.orderLoading = FALSE]
    /\ Ret(p, [procs[p] EXCEPT !.result = NoRes], procs[p].result)

executeTradeWithDebugSteps(p) ==
    \/ executeTradeWithDebug_entry(p)
    \/ executeTradeWithDebug_afterSubmit(p)
    \/ executeTradeWithDebug_afterOriginal(p)
    \/ executeTradeWithDebug_afterRefresh(p)

(***************************************************************************)
(* SpecDebug: a connected user with a persisted session calls              *)
(* executeTradeWithDebug, one call at a time, while the clock advances.    *)
(***************************************************************************)
InitDebug ==
    /\ now = 1
    /\ supported = TRUE
    /\ blob = Some([NewAuthData("u1") EXCEPT !.lastAuth = 1])
    /\ authenticationInProgress = FALSE
    /\ lastAuthResult = Some(OkUser("u1"))
    /\ store = ConnectedStore
    /\ procs = [p \in Procs |-> IdleProc]
    /\ running = None
    /\ last = NoLast

DebugAmounts == {<<"0">>, <<"3", "0", "0">>}

StartExecuteTradeWithDebug(p, amount) ==
    /\ Start(p, "executeTradeWithDebug", TradeArgs("XLM", amount, 10))
    /\ UNCHANGED <<now, supported, blob, authenticationInProgress, lastAuthResult, store>>

NextDebug ==
    \/ Tick
    \/ \E p \in OrderProcs, amount \in DebugAmounts : StartExecuteTradeWithDebug(p, amount)
    \/ \E p \in Procs : executeTradeWithDebugSteps(p)
    \/ \E p \in Procs : debugContractStateSteps(p)
    \/ \E p \in Procs : executeTradeSteps(p)
    \/ \E p \in Procs : authenticateSteps(p)
    \/ \E p \in Procs : refreshBalancesSteps(p)
    \/ \E p \in Procs : getKaleBalanceSteps(p)

SpecDebug == InitDebug /\ [][NextDebug]_vars

(***************************************************************************)
(* C16: executeTradeWithDebug tries the dedicated create_position endpoint *)
(* (executeTrade) first and calls the generic submit endpoint              *)
(* (executeTradeViaSubmit) only if the dedicated call has failed; the      *)
(* second endpoint is never attempted after the first succeeded.           *)
(***************************************************************************)
\* the trade functions among the calls made, in the order of the calls
TradeCalls(calls) ==
    SelectSeq(calls, LAMBDA c : c \in {"executeTrade", "executeTradeViaSubmit"})

C16_DedicatedEndpointFirst ==
    \A p \in Procs :
        LET T == TradeCalls(procs[p].g.calls)
        IN  (procs[p].op = "executeTradeWithDebug" /\ T # <<>>)
            => /\ T[1] = "executeTrade"
               /\ Len(T) >= 2 => /\ T[2] = "executeTradeViaSubmit"
                                 /\ ~procs[p].result.success

(***************************************************************************)
(* C17: for a submission that returned PENDING and whose status never      *)
(* becomes SUCCESS or FAILED (polls where getTransaction throws included), *)
(* the poll loop issues exactly 10 getTransaction calls and then ends with *)
(* success = false and a timeout error that differs from the error of a    *)
(* FAILED transaction.  No call polls more than 10 times.                  *)
(***************************************************************************)
C17_PollLoopEndsInTimeout ==
    /\ \A p \in Procs : procs[p].att.polls <= 10
    /\ (/\ last.op \in {"executeTrade", "executeTradeViaSubmit"}
        /\ \/ last.att.status = "Timeout"
           \/ /\ last.att.polls >= 1
              /\ ~last.res.success
              /\ last.res.error # "Transaction failed after submission")
       => /\ last.att.polls = 10
          /\ last.g.poll = 10
          /\ ~last.res.success
          /\ last.res.error
                = "Transaction is taking longer than expected. Check transaction status manually."
          /\ last.res.error # "Transaction failed after submission"

C17_Witness ==
    /\ last.op = "executeTrade"
    /\ last.att.status = "Timeout"
    /\ last.att.polls = 10
    /\ ~last.res.success

(***************************************************************************)
(* PasskeyService: the simulated vault.  simulateVaultDeposit and          *)
(* simulateVaultWithdraw, after their delay, read and write the blob in    *)
(* one piece: they are operators from the blob and the amount to the blob  *)
(* written and the result returned.                                        *)
(***************************************************************************)
\* updateMockVaultData(data): the blob after it
updateMockVaultData(b, data) ==
    IF b = Null THEN b ELSE Some([b[1] EXCEPT !.mockVaultData = Some(data)])

\* simulateVaultDeposit without the balance check
simulateVaultDeposit_unchecked(b, amount) ==
    LET vaultData == getMockVaultData(b)
        newShares == IF NumGt(vaultData.totalShares, Num(0))
                     THEN NumMul(NumDiv(amount, vaultData.totalLiquidity),
                                 vaultData.totalShares)
                     ELSE amount
        updatedVaultData ==
            [totalLiquidity |-> NumAdd(vaultData.totalLiquidity, amount),
             userShares |-> NumAdd(vaultData.userShares, newShares),
             apy |-> vaultData.apy,
             totalShares |-> NumAdd(vaultData.totalShares, newShares),
             userDeposited |-> NumAdd(vaultData.userDeposited, amount)]
    IN  [blob |-> updateMockBalance(updateMockVaultData(b, updatedVaultData),
                                    NumToString(amount)),
         res |-> Ok]

\* simulateVaultDeposit issuing one share per unit deposited, whatever the vault holds
simulateVaultDeposit_oneToOne(b, amount) ==
    LET vaultData == getMockVaultData(b)
        currentBalance == ParseFloat(getMockKaleBalance(b))
        updatedVaultData ==
            [totalLiquidity |-> NumAdd(vaultData.totalLiquidity, amount),
             userShares |-> NumAdd(vaultData.userShares, amount),
             apy |-> vaultData.apy,
             totalShares |-> NumAdd(vaultData.totalShares, amount),
             userDeposited |-> NumAdd(vaultData.userDeposited, amount)]
    IN  IF NumGt(amount, currentBalance)
        THEN [blob |-> b, res |-> Fail("Insufficient balance for deposit")]
        ELSE [blob |-> updateMockBalance(updateMockVaultData(b, updatedVaultData),
                                         NumToString(amount)),
              res |-> Ok]

\* simulateVaultDeposit writing the vault and leaving the balance for later
simulateVaultDeposit_vaultOnly(b, amount) ==
    LET vaultData == getMockVaultData(b)
        currentBalance == ParseFloat(getMockKaleBalance(b))
        newShares == IF NumGt(vaultData.totalShares, Num(0))
                     THEN NumMul(NumDiv(amount, vaultData.totalLiquidity),
                                 vaultData.totalShares)
                     ELSE amount
        updatedVaultData ==
            [totalLiquidity |-> NumAdd(vaultData.totalLiquidity, amount),
             userShares |-> NumAdd(vaultData.userShares, newShares),
             apy |-> vaultData.apy,
             totalShares |-> NumAdd(vaultData.totalShares, newShares),
             userDeposited |-> NumAdd(vaultData.userDeposited, amount)]
    IN  IF NumGt(amount, currentBalance)
        THEN [blob |-> b, res |-> Fail("Insufficient balance for deposit")]
        ELSE [blob |-> updateMockVaultData(b, updatedVaultData), res |-> Ok]

simulateVaultDeposit(b, amount) ==
    LET vaultData == getMockVaultData(b)
        currentBalance == ParseFloat(getMockKaleBalance(b))
        newShares == IF NumGt(vaultData.totalShares, Num(0))
                     THEN NumMul(NumDiv(amount, vaultData.totalLiquidity),
                                 vaultData.totalShares)
                     ELSE amount
        updatedVaultData ==
            [totalLiquidity |-> NumAdd(vaultData.totalLiquidity, amount),
             userShares |-> NumAdd(vaultData.userShares, newShares),
             apy |-> vaultData.apy,
             totalShares |-> NumAdd(vaultData.totalShares, newShares),
             userDeposited |-> NumAdd(vaultData.userDeposited, amount)]
    IN  IF NumGt(amount, currentBalance)
        THEN [blob |-> b, res |-> Fail("Insufficient balance for deposit")]
        ELSE [blob |-> updateMockBalance(updateMockVaultData(b, updatedVaultData),
                                         NumToString(amount)),
              res |-> Ok]

\* the writes of a successful simulateVaultWithdraw that burns `sharesToBurn`
VaultWithdrawn(b, amount, sharesToBurn) ==
    LET vaultData == getMockVaultData(b)
        updatedVaultData ==
            [totalLiquidity |-> NumMax(Num(0), NumSub(vaultData.totalLiquidity, amount)),
             userShares |-> NumMax(Num(0), NumSub(vaultData.userShares, sharesToBurn)),
             apy |-> vaultData.apy,
             totalShares |-> NumMax(Num(0), NumSub(vaultData.totalShares, sharesToBurn)),
             userDeposited |-> NumMax(Num(0), NumSub(vaultData.userDeposited, amount))]
        b1 == updateMockVaultData(b, updatedVaultData)
        currentBalance == ParseFloat(getMockKaleBalance(b1))
        newBalance == NumAdd(currentBalance, amount)
    IN  IF b1 = Null THEN b1
        ELSE Some([b1[1] EXCEPT !.mockKaleBalance = NumToString(newBalance)])

\* simulateVaultWithdraw without the position check
simulateVaultWithdraw_unchecked(b, amount) ==
    LET vaultData == getMockVaultData(b)
        sharesToBurn == NumMul(NumDiv(amount, vaultData.totalLiquidity),
                               vaultData.totalShares)
    IN  [blob |-> VaultWithdrawn(b, amount, sharesToBurn), res |-> Ok]

\* simulateVaultWithdraw burning one share per unit withdrawn
simulateVaultWithdraw_burnsAmount(b, amount) ==
    LET vaultData == getMockVaultData(b)
        userValue == IF NumGt(vaultData.totalShares, Num(0))
                     THEN NumMul(NumDiv(vaultData.userShares, vaultData.totalShares),
                                 vaultData.totalLiquidity)
                     ELSE Num(0)
    IN  IF NumGt(amount, userValue)
        THEN [blob |-> b, res |-> Fail("Insufficient vault position for withdrawal")]
        ELSE [blob |-> VaultWithdrawn(b, amount, amount), res |-> Ok]

simulateVaultWithdraw(b, amount) ==
    LET vaultData == getMockVaultData(b)
        userValue == IF NumGt(vaultData.totalShares, Num(0))
                     THEN NumMul(NumDiv(vaultData.userShares, vaultData.totalShares),
                                 vaultData.totalLiquidity)
                     ELSE Num(0)
        sharesToBurn == NumMul(NumDiv(amount, vaultData.totalLiquidity),
                               vaultData.totalShares)
    IN  IF NumGt(amount, userValue)
        THEN [blob |-> b, res |-> Fail("Insufficient vault position for withdrawal")]
        ELSE [blob |-> VaultWithdrawn(b, amount, sharesToBurn), res |-> Ok]

\* await new Promise(resolve => setTimeout(resolve, 1500))
simulateVaultDeposit_entry(p) ==
    /\ At(p, "simulateVaultDeposit")
    /\ UNCHANGED <<now, supported, blob, authenticationInProgress, lastAuthResult, store>>
    /\ Await(p, procs[p], "simulateVaultDeposit_delay")

\* the delay is over: from getMockVaultData() to the return
simulateVaultDeposit_delay(p) ==
    /\ Waiting(p, "simulateVaultDeposit_delay")
    /\ UNCHANGED <<now, supported, authenticationInProgress, lastAuthResult, store>>
    /\ LET q == procs[p]
           done == simulateVaultDeposit(blob, q.amount)
       IN  /\ blob' = done.blob
           /\ Ret(p, [q EXCEPT !.g.ledger = IF done.res.success THEN @ + 1 ELSE @], done.res)

simulateVaultWithdraw_entry(p) ==
    /\ At(p, "simulateVaultWithdraw")
    /\ UNCHANGED <<now, supported, blob, authenticationInProgress, lastAuthResult, store>>
    /\ Await(p, procs[p], "simulateVaultWithdraw_delay")

\* the delay is over: from getMockVaultData() to the return
simulateVaultWithdraw_delay(p) ==
    /\ Waiting(p, "simulateVaultWithdraw_delay")
    /\ UNCHANGED <<now, supported, authenticationInProgress, lastAuthResult, store>>
    /\ LET q == procs[p]
           done == simulateVaultWithdraw(blob, q.amount)
       IN  /\ blob' = done.blob
           /\ Ret(p, [q EXCEPT !.g.ledger = IF done.res.success THEN @ + 1 ELSE @], done.res)

\* depositToVaultWithSimulation and withdrawFromVaultWithSimulation: forced or
\* not, `return this.simulateVault...(amount)`
depositToVaultWithSimulation_entry(p) ==
    /\ At(p, "depositToVaultWithSimulation")
    /\ UNCHANGED <<now, supported, blob, authenticationInProgress, lastAuthResult, store>>
    /\ Call(p, procs[p], "simulateVaultDeposit", "VaultWithSimulation_return")

withdrawFromVaultWithSimulation_entry(p) ==
    /\ At(p, "withdrawFromVaultWithSimulation")
    /\ UNCHANGED <<now, supported, blob, authenticationInProgress, lastAuthResult, store>>
    /\ Call(p, procs[p], "simulateVaultWithdraw", "VaultWithSimulation_return")

VaultWithSimulation_return(p) ==
    /\ At(p, "VaultWithSimulation_return")
    /\ UNCHANGED <<now, supported, blob, authenticationInProgress, lastAuthResult, store>>
    /\ Ret(p, procs[p], procs[p].ret)

simulateVaultSteps(p) ==
    \/ simulateVaultDeposit_entry(p)
    \/ simulateVaultDeposit_delay(p)
    \/ simulateVaultWithdraw_entry(p)
    \/ simulateVaultWithdraw_delay(p)
    \/ depositToVaultWithSimulation_entry(p)
    \/ withdrawFromVaultWithSimulation_entry(p)
    \/ VaultWithSimulation_return(p)

(***************************************************************************)
(* store: depositToVault and withdrawFromVault                             *)
(***************************************************************************)
depositToVault_entry(p) ==
    /\ At(p, "depositToVault")
    /\ UNCHANGED <<now, supported, blob, authenticationInProgress, lastAuthResult, store>>
    /\ LET q == procs[p]
       IN  IF ~store.passkeyAuth.isAuthenticated
           THEN Ret(p, q, Fail("Please authenticate with your passkey first"))
           ELSE IF NumLe(q.amount, Num(0))
           THEN Ret(p, q, Fail("Please enter a valid deposit amount"))
           ELSE Call(p, [q EXCEPT !.force = store.simulationMode],
                     "depositToVaultWithSimulation", "VaultOperation_afterSimulation")

withdrawFromVault_entry(p) ==
    /\ At(p, "withdrawFromVault")
    /\ UNCHANGED <<now, supported, blob, authenticationInProgress, lastAuthResult, store>>
    /\ LET q == procs[p]
       IN  IF ~store.passkeyAuth.isAuthenticated
           THEN Ret(p, q, Fail("Please authenticate with your passkey first"))
           ELSE IF NumLe(q.amount, Num(0))
           THEN Ret(p, q, Fail("Please enter a valid withdrawal amount"))
           ELSE Call(p, [q EXCEPT !.force = store.simulationMode],
                     "withdrawFromVaultWithSimulation", "VaultOperation_afterSimulation")

\* the service has returned: if (result.success) { await get().loadVaultInfo();
\* await get().refreshBalances() }
VaultOperation_afterSimulation(p) ==
    /\ At(p, "VaultOperation_afterSimulation")
    /\ UNCHANGED <<now, supported, blob, authenticationInProgress, lastAuthResult>>
    /\ LET q == [procs[p] EXCEPT !.force = FALSE]
           result == procs[p].ret
       IN  IF result.success
           THEN /\ store' = LoadedVaultInfo(store, blob)
                /\ Call(p, [q EXCEPT !.result = result], "refreshBalances",
                        "VaultOperation_afterRefresh")
           ELSE /\ UNCHANGED store
                /\ Ret(p, q, result)

\* return result
VaultOperation_afterRefresh(p) ==
    /\ At(p, "VaultOperation_afterRefresh")
    /\ UNCHANGED <<now, supported, blob, authenticationInProgress, lastAuthResult, store>>
    /\ Ret(p, [procs[p] EXCEPT !.result = NoRes], procs[p].result)

vaultOperationSteps(p) ==
    \/ depositToVault_entry(p)
    \/ withdrawFromVault_entry(p)
    \/ VaultOperation_afterSimulation(p)
    \/ VaultOperation_afterRefresh(p)

(***************************************************************************)
(* SpecVault: a connected user whose persisted session has just expired   *)
(* (a real balance query asks the authenticator again), whose simulated    *)
(* balance is the default or what simulated trades have left of it,        *)
(* deposits to and withdraws from the vault, in two concurrent calls, and  *)
(* may sign out.                                                           *)
(***************************************************************************)
\* the balances simulated trades leave: none made, 300 traded
TradedBalances == {<<>>, <<"7", "0", "0">>}

InitVault ==
    /\ now = 1 + MaxAge
    /\ supported = TRUE
    /\ \E balance \in TradedBalances :
          blob = Some([NewAuthData("u1") EXCEPT !.lastAuth = 1,
                                                !.mockKaleBalance = balance])
    /\ authenticationInProgress = FALSE
    /\ lastAuthResult = Some(OkUser("u1"))
    /\ store \in {ConnectedStore, [ConnectedStore EXCEPT !.simulationMode = TRUE]}
    /\ procs = [p \in Procs |-> IdleProc]
    /\ running = None
    /\ last = NoLast

VaultAmounts == {Num(0), Num(400), Num(1200)}

VaultOps == {"depositToVault", "withdrawFromVault"}

StartVaultOp(p, op, amount) ==
    /\ Start(p, op, [NoArgs EXCEPT !.amount = amount, !.sim = store.simulationMode,
                                   !.valid = SessionValid(blob, now)])
    /\ UNCHANGED <<now, supported, blob, authenticationInProgress, lastAuthResult, store>>

NextVault ==
    \/ signOutPasskey
    \/ \E p \in Procs, op \in VaultOps, amount \in VaultAmounts : StartVaultOp(p, op, amount)
    \/ \E p \in Procs : vaultOperationSteps(p)
    \/ \E p \in Procs : simulateVaultSteps(p)
    \/ \E p \in Procs : refreshBalancesSteps(p)
    \/ \E p \in Procs : getKaleBalanceSteps(p)
    \/ \E p \in Procs : authenticateSteps(p)

SpecVault == InitVault /\ [][NextVault]_vars

(***************************************************************************)
(* C18: simulateVaultDeposit(amount) with amount greater than the current  *)
(* mock balance returns failure ('Insufficient balance for deposit') and   *)
(* leaves the mock balance and all mock vault fields unchanged.            *)
(***************************************************************************)
C18_DepositOverBalanceRejected ==
    [][\A p \in Procs :
          (/\ Waiting(p, "simulateVaultDeposit_delay")
           /\ procs'[p].stack # procs[p].stack
           /\ NumGt(procs[p].amount, ParseFloat(getMockKaleBalance(blob))))
          => /\ ~procs'[p].ret.success
             /\ procs'[p].ret.error = "Insufficient balance for deposit"
             /\ blob' = blob]_vars

C18_Witness ==
    /\ last.op = "depositToVault"
    /\ last.args.amount = Num(1200)
    /\ ~last.res.success
    /\ last.res.error = "Insufficient balance for deposit"
    /\ blob # Null

(***************************************************************************)
(* C19: simulateVaultWithdraw(amount) with amount greater than             *)
(* userValue = userShares / totalShares * totalLiquidity (0 when           *)
(* totalShares is 0) returns failure ('Insufficient vault position for     *)
(* withdrawal') and leaves the mock balance and all mock vault fields      *)
(* unchanged.                                                              *)
(***************************************************************************)
C19_WithdrawOverPositionRejected ==
    [][\A p \in Procs :
          LET vaultData == getMockVaultData(blob)
              userValue == IF NumGt(vaultData.totalShares, Num(0))
                           THEN NumMul(NumDiv(vaultData.userShares, vaultData.totalShares),
                                       vaultData.totalLiquidity)
                           ELSE Num(0)
          IN  (/\ Waiting(p, "simulateVaultWithdraw_delay")
               /\ procs'[p].stack # procs[p].stack
               /\ NumGt(procs[p].amount, userValue))
              => /\ ~procs'[p].ret.success
                 /\ procs'[p].ret.error = "Insufficient vault position for withdrawal"
                 /\ blob' = blob]_vars

\* a withdrawal of more than the position built by an earlier deposit is refused
C19_Witness ==
    /\ last.op = "withdrawFromVault"
    /\ last.args.amount = Num(1200)
    /\ ~last.res.success
    /\ last.res.error = "Insufficient vault position for withdrawal"
    /\ blob # Null
    /\ NumGt(getMockVaultData(blob).userShares, Num(0))

(***************************************************************************)
(* C20: round trip.  From any reachable ledger state with a persisted      *)
(* blob, a successful simulateVaultDeposit(a) followed immediately by      *)
(* simulateVaultWithdraw(a) succeeds and returns the mock balance,         *)
(* userShares, totalShares, totalLiquidity and userDeposited to their      *)
(* values before the deposit, in exact arithmetic.                         *)
(***************************************************************************)
\* the simulated ledger as the program reads it
Ledger(b) == [balance |-> ParseFloat(getMockKaleBalance(b)), vault |-> getMockVaultData(b)]

C20_DepositWithdrawRoundTrip ==
    \A a \in VaultAmounts \cup {Num(1), Num(250)} :
        LET deposited == simulateVaultDeposit(blob, a)
            withdrawn == simulateVaultWithdraw(deposited.blob, a)
        IN  (blob # Null /\ deposited.res.success)
            => /\ withdrawn.res.success
               /\ Ledger(withdrawn.blob) = Ledger(blob)

\* a deposit of 400 and then a withdrawal of 400 have run, and the ledger reads as
\* it did at the start
C20_Witness ==
    /\ last.op = "withdrawFromVault"
    /\ last.args.amount = Num(400)
    /\ last.res.success
    /\ blob # Null
    /\ blob[1].mockVaultData # Null
    /\ blob[1].mockKaleBalance # <<>>
    /\ getMockVaultData(blob) = DefaultVaultData
    /\ Ledger(blob).balance \in {Num(1000), Num(700)}

(***************************************************************************)
(* SpecAlone: the authentication operations called one at a time: a call   *)
(* is made, and the user signs out, only when nothing is in flight.  The   *)
(* clock advances.                                                         *)
(***************************************************************************)
Snapshot ==
    [blob |-> blob, passkeyAuth |-> store.passkeyAuth, isConnected |-> store.isConnected]

StartAuthOpAlone(p, op) ==
    /\ \A o \in Procs : Idle(o)
    /\ Start(p, op, [NoArgs EXCEPT !.registered = (blob # Null),
                                   !.before = Some(Snapshot)])
    /\ UNCHANGED <<now, supported, blob, authenticationInProgress, lastAuthResult, store>>

NextAlone ==
    \/ Tick
    \/ (\A o \in Procs : Idle(o)) /\ signOutPasskey
    \/ \E p \in OrderProcs, op \in AuthOps : StartAuthOpAlone(p, op)
    \/ \E p \in Procs : registerPasskeySteps(p)
    \/ \E p \in Procs : authenticateWithPasskeySteps(p)
    \/ \E p \in Procs : checkPasskeyStatusSteps(p)
    \/ \E p \in Procs : registerSteps(p)
    \/ \E p \in Procs : authenticateSteps(p)
    \/ \E p \in Procs : refreshBalancesSteps(p)
    \/ \E p \in Procs : getKaleBalanceSteps(p)
    \/ \E p \in Procs : getCurrentPricesSteps(p)

SpecAlone == Init /\ [][NextAlone]_vars

(***************************************************************************)
(* C15: when registerPasskey or authenticateWithPasskey returns            *)
(* success = false (cancellation, unsupported platform, account-funding    *)
(* failure, lock rejection or any other error), the persisted blob and the *)
(* store's authentication state are exactly as they were before the call.  *)
(***************************************************************************)
C15_FailureLeavesNoTrace ==
    (/\ last.op \in {"registerPasskey", "authenticateWithPasskey"}
     /\ ~last.res.success
     /\ last.args.before # <<>>)
    => /\ blob = last.args.before[1].blob
       /\ store.passkeyAuth = last.args.before[1].passkeyAuth
       /\ store.isConnected = last.args.before[1].isConnected

(***************************************************************************)
(* SpecLedger: a connected user with a persisted session and simulation    *)
(* mode on places simulated orders and deposits to and withdraws from the  *)
(* vault, in two concurrent calls; the order size is edited between calls. *)
(***************************************************************************)
InitLedger ==
    /\ now = 1
    /\ supported = TRUE
    /\ blob = Some([NewAuthData("u1") EXCEPT !.lastAuth = 1])
    /\ authenticationInProgress = FALSE
    /\ lastAuthResult = Some(OkUser("u1"))
    /\ store = [ConnectedStore EXCEPT !.simulationMode = TRUE]
    /\ procs = [p \in Procs |-> IdleProc]
    /\ running = None
    /\ last = NoLast

LedgerSizes == {<<"3", "0", "0">>, <<"8", "0", "0">>}

LedgerAmounts == {Num(400), Num(1200)}

NextLedger ==
    \/ \E size \in LedgerSizes : BetweenOrders /\ setOrderSize(size)
    \/ \E p \in Procs : StartPlaceOrder(p)
    \/ \E p \in Procs, op \in VaultOps, amount \in LedgerAmounts : StartVaultOp(p, op, amount)
    \/ \E p \in Procs : placeOrderSteps(p)
    \/ \E p \in Procs : executeSmartContractTrade_entry(p)
    \/ \E p \in Procs : executeSmartContractTrade_afterTrade(p)
    \/ \E p \in Procs : executeTradeWithSimulation_entry(p)
    \/ \E p \in Procs : executeTradeWithSimulation_return(p)
    \/ \E p \in Procs : simulateTradeSuccessSteps(p)
    \/ \E p \in Procs : vaultOperationSteps(p)
    \/ \E p \in Procs : simulateVaultSteps(p)
    \/ \E p \in Procs : refreshBalances_entry(p)

SpecLedger == InitLedger /\ [][NextLedger]_vars

(***************************************************************************)
(* C21: in every reachable state of the simulated ledger, after any        *)
(* sequence of simulated trades, deposits and withdrawals, the mock        *)
(* balance, totalLiquidity, totalShares, userShares and userDeposited are  *)
(* all >= 0.                                                               *)
(***************************************************************************)
C21_LedgerNeverNegative ==
    /\ NumLe(Num(0), ParseFloat(getMockKaleBalance(blob)))
    /\ NumLe(Num(0), getMockVaultData(blob).totalLiquidity)
    /\ NumLe(Num(0), getMockVaultData(blob).totalShares)
    /\ NumLe(Num(0), getMockVaultData(blob).userShares)
    /\ NumLe(Num(0), getMockVaultData(blob).userDeposited)

\* a simulated trade larger than the balance has been clamped, after vault traffic
C21_Witness ==
    /\ last.op = "placeOrder"
    /\ last.res.success
    /\ blob # Null
    /\ blob[1].mockKaleBalance = <<"0">>
    /\ blob[1].mockVaultData # Null

(***************************************************************************)
(* C22: in refreshBalances outside simulation mode, if the real balance    *)
(* query fails (RPC or network error, failed authentication) or returns no *)
(* data, the displayed kaleBalance / balance is the simulated (mock)       *)
(* balance: a failed real query never shows an error or another value.     *)
(* With the balance a successful query answers, what refreshBalances shows *)
(* after the query is that balance or the simulated one.                   *)
(***************************************************************************)
C22_FailedQueryShowsMockBalance ==
    [][\A p \in Procs :
          (/\ At(p, "refreshBalances_afterKale")
           /\ procs'[p].stack # procs[p].stack)
          => \/ /\ store'.kaleBalance = getMockKaleBalance(blob)
                /\ store'.balance = ParseFloat(getMockKaleBalance(blob))
             \/ \E real \in RealBalances :
                   /\ store'.kaleBalance = NatToString(real)
                   /\ store'.balance = Num(real)]_vars

(***************************************************************************)
(* C23: after depositToVault or withdrawFromVault returns success, the     *)
(* store shows what was just written (read-your-writes): vaultInfo equals  *)
(* the persisted mock vault and the displayed balance reflects the debit   *)
(* or credit just applied, with simulationMode on and with it off.         *)
(***************************************************************************)
C23_VaultReadYourWrites ==
    (/\ last.op \in {"depositToVault", "withdrawFromVault"}
     /\ last.res.success
     /\ blob # Null
     /\ store.passkeyAuth.isAuthenticated
     /\ \A o \in Procs : Idle(o))
    => /\ store.vaultInfo = Some(getVaultInfo(blob))
       /\ store.kaleBalance = getMockKaleBalance(blob)
       /\ store.balance = ParseFloat(getMockKaleBalance(blob))

(***************************************************************************)
(* SpecStore: the store operations that return a result.  The page was     *)
(* loaded with a valid persisted session, which has expired since: the     *)
(* store is connected and the service has authenticated nobody yet.  One   *)
(* caller invokes any one of the operations on the page as it was loaded,  *)
(* a second one authenticateWithPasskey, before, during or after it.  The  *)
(* network answers a submission at once, with SUCCESS or an error.         *)
(***************************************************************************)
LoadedBlob == Some([NewAuthData("u1") EXCEPT !.lastAuth = 1])

LoadedStores ==
    {[ConnectedStore EXCEPT !.simulationMode = enabled,
                            !.orderSize = <<"3", "0", "0">>,
                            !.leverage = 10] : enabled \in BOOLEAN}

InitStore ==
    /\ now = 1 + MaxAge
    /\ supported = TRUE
    /\ blob = LoadedBlob
    /\ authenticationInProgress = FALSE
    /\ lastAuthResult = Null
    /\ store \in LoadedStores
    /\ procs = [p \in Procs |-> IdleProc]
    /\ running = None
    /\ last = NoLast

\* nothing has changed what the page loaded, the lock aside
AsLoaded ==
    /\ blob = LoadedBlob
    /\ lastAuthResult = Null
    /\ [store EXCEPT !.operationInProgress = FALSE] \in LoadedStores

ResultOps ==
    {"placeOrder", "executeSmartContractTrade", "executeTradeWithDebug", "depositToVault",
     "withdrawFromVault", "registerPasskey", "authenticateWithPasskey"}

StartResultOp(p, op) ==
    IF op = "placeOrder" THEN StartPlaceOrder(p)
    ELSE IF op \in {"executeSmartContractTrade", "executeTradeWithDebug"}
    THEN /\ Start(p, op, [TradeArgs("XLM", <<"3", "0", "0">>, 10)
                             EXCEPT !.sim = store.simulationMode])
         /\ UNCHANGED <<now, supported, blob, authenticationInProgress, lastAuthResult, store>>
    ELSE IF op \in VaultOps THEN StartVaultOp(p, op, Num(400))
    ELSE StartAuthOp(p, op)

NextStore ==
    \/ \E op \in ResultOps : AsLoaded /\ StartResultOp("p1", op)
    \/ StartResultOp("p2", "authenticateWithPasskey")
    \/ \E p \in Procs : placeOrderSteps(p)
    \/ \E p \in Procs : executeSmartContractTradeSteps(p)
    \/ \E p \in Procs : executeTradeWithSimulationSteps(p)
    \/ \E p \in Procs : simulateTradeSuccessSteps(p)
    \/ \E p \in Procs, endpoint \in Endpoints : executeTrade_entry(p, endpoint)
    \/ \E p \in Procs : executeTrade_afterAuth(p)
    \/ \E p \in Procs, outcome \in NetOutcomes : executeTrade_getAccount(p, outcome)
    \/ \E p \in Procs, outcome \in SimulateOutcomes : executeTrade_simulate(p, outcome)
    \/ \E p \in Procs, status \in SendStatuses \ {"PENDING"} : executeTrade_send(p, status)
    \/ \E p \in Procs : executeTradeWithDebugSteps(p)
    \/ \E p \in Procs : debugContractStateSteps(p)
    \/ \E p \in Procs : vaultOperationSteps(p)
    \/ \E p \in Procs : simulateVaultSteps(p)
    \/ \E p \in Procs : registerPasskeySteps(p)
    \/ \E p \in Procs : authenticateWithPasskey_entry(p)
    \/ \E p \in Procs : authenticateWithPasskey_afterAuth(p)
    \/ \E p \in Procs : authenticateWithPasskey_afterRefresh(p)
    \/ \E p \in Procs : authenticateWithPasskey_afterPrices(p)
    \/ \E p \in Procs : registerSteps(p)
    \/ \E p \in Procs : authenticateSteps(p)
    \/ \E p \in Procs : refreshBalancesSteps(p)
    \/ \E p \in Procs : getKaleBalanceSteps(p)
    \/ \E p \in Procs : getCurrentPricesSteps(p)

SpecStore == InitStore /\ [][NextStore]_vars

(***************************************************************************)
(* C24: every store operation that returns a result (placeOrder,           *)
(* executeSmartContractTrade, executeTradeWithDebug, depositToVault,       *)
(* withdrawFromVault, registerPasskey, authenticateWithPasskey) ends with  *)
(* a structured result: no exception escapes to the caller, and a failure  *)
(* carries an error message.                                               *)
(***************************************************************************)
C24_NoExceptionEscapes ==
    last.op \in {"placeOrder", "executeSmartContractTrade", "executeTradeWithDebug",
                 "depositToVault", "withdrawFromVault", "registerPasskey",
                 "authenticateWithPasskey"}
    => /\ ~last.res.thrown
       /\ last.res.success \in BOOLEAN
       /\ (~last.res.success /\ last.op # "executeTradeWithDebug") => last.res.error # ""
       /\ (~last.res.success /\ last.op = "executeTradeWithDebug") => last.res.error # <<>>

\* authenticate() threw into authenticateWithPasskey, which returned the failure
C24_Witness ==
    /\ last.op = "authenticateWithPasskey"
    /\ ~last.res.success
    /\ ~last.res.thrown
    /\ last.res.error = "Authentication already in progress"

\* C24 as stated: whenever an underlying service, network or authenticator call
\* throws or rejects, the operation returns success = false
C24_ThrowGivesFailure ==
    (/\ last.op \in {"placeOrder", "executeSmartContractTrade"}
     /\ last.att.done
     /\ last.att.res.error = "Network error")
    => ~last.res.success

(***************************************************************************)
(* C25: within one executeTrade or executeTradeViaSubmit the steps happen   *)
(* in the order validate, authenticate, getAccount, build, simulate, sign,  *)
(* sendTransaction, getTransaction polls, each starting after the one       *)
(* before it has completed: executeTrade makes no call at all with          *)
(* parameters its validation rejects; getAccount is called once, after the  *)
(* one authenticate call has returned; simulateTransaction follows          *)
(* getAccount; sendTransaction is called once, with a transaction that was  *)
(* simulated without error and then signed; and a getTransaction poll is    *)
(* only ever outstanding or counted after sendTransaction answered PENDING. *)
(***************************************************************************)
C25_InOrder(op, args, g, a, stack) ==
    /\ (op = "executeTrade" /\ args.amount = <<"0">>) => g = G0
    /\ g.getAccount \in {0, 1}
    /\ g.getAccount = 1 => g.calls = <<"authenticate">> /\ Len(stack) <= 1
    /\ g.simulate <= g.getAccount
    /\ g.simulate = 1 <=> a.status # None
    /\ g.sign <= g.simulate
    /\ g.send = g.sign
    /\ g.sign = 1 <=> a.signed
    /\ g.send = 1 <=> a.sent
    /\ a.sent => a.signed /\ ~a.simError
    /\ g.poll >= 1 => a.sent /\ a.status \in {"Pending", "Success", "Failed", "Timeout"}
    /\ (stack # <<>> /\ Head(stack) = "executeTrade_poll")
       => a.sent /\ a.status = "Pending"
    /\ (stack # <<>> /\ g.poll >= 1) => Head(stack) = "executeTrade_poll"
    /\ a.status \in {"Submitted", "Pending", "Success", "Failed", "Timeout"} <=> a.sent

C25_StepsInOrder ==
    /\ \A p \in Procs :
          procs[p].op \in {"executeTrade", "executeTradeViaSubmit"}
          => C25_InOrder(procs[p].op, procs[p].args, procs[p].g, procs[p].att,
                         procs[p].stack)
    /\ last.op \in {"executeTrade", "executeTradeViaSubmit"}
       => C25_InOrder(last.op, last.args, last.g, last.att, <<>>)

\* a trade went through every step and ended on its third poll
C25_Witness ==
    /\ last.op = "executeTrade"
    /\ last.res.success
    /\ last.g.calls = <<"authenticate">>
    /\ last.g.getAccount = 1 /\ last.g.simulate = 1 /\ last.g.sign = 1 /\ last.g.send = 1
    /\ last.g.poll = 3
    /\ last.att.status = "Success"

(***************************************************************************)
(* C26: a PENDING submission whose status getTransaction first reports as   *)
(* SUCCESS on poll k (k in 1..10) returns success = true with the           *)
(* transaction hash after exactly k getTransaction calls; one first         *)
(* reported FAILED on poll k returns success = false after exactly k        *)
(* calls.  No poll is outstanding once an answer was SUCCESS or FAILED.     *)
(***************************************************************************)
C26_PollLoopStopsAtAnswer ==
    /\ \A p \in Procs : procs[p].att.settledAt = 0
    /\ (last.op \in {"executeTrade", "executeTradeViaSubmit"} /\ last.att.settledAt # 0)
       => /\ last.att.settledAt \in 1..10
          /\ last.g.poll = last.att.settledAt
          /\ last.att.polls = last.att.settledAt
          /\ last.att.status \in {"Success", "Failed"}
          /\ last.att.status = "Success"
             => last.res.success /\ last.res.hash = <<"txhash">>
          /\ last.att.status = "Failed"
             => ~last.res.success /\ last.res.error = "Transaction failed after submission"
    /\ (last.op \in {"executeTrade", "executeTradeViaSubmit"} /\ last.att.polls >= 1
        /\ last.att.status \in {"Success", "Failed"})
       => last.att.settledAt = last.att.polls

\* the scenario of the specification: SUCCESS on poll 3 of 10
C26_Witness ==
    /\ last.op = "executeTradeViaSubmit"
    /\ last.att.settledAt = 3
    /\ last.g.poll = 3
    /\ last.res.success

\* FAILED on the last poll
C26_WitnessFailed ==
    /\ last.att.settledAt = 10
    /\ last.g.poll = 10
    /\ ~last.res.success

(***************************************************************************)
(* SpecAuthFair: SpecAuth where every call that was started goes on: an     *)
(* awaited authenticator or network call returns, and the event loop runs   *)
(* the continuation that waits for it.  A continuation cannot run while     *)
(* another caller's synchronous code does, so its fairness is strong.       *)
(* Callers and the sign-out button are under no obligation to act.          *)
(***************************************************************************)
AuthStepsOf(p) ==
    \/ registerPasskeySteps(p)
    \/ authenticateWithPasskeySteps(p)
    \/ checkPasskeyStatusSteps(p)
    \/ registerSteps(p)
    \/ authenticateSteps(p)
    \/ refreshBalancesSteps(p)
    \/ getKaleBalanceSteps(p)
    \/ getCurrentPricesSteps(p)

SpecAuthFair == Init /\ [][NextAuth]_vars /\ \A p \in Procs : SF_vars(AuthStepsOf(p))

(***************************************************************************)
(* C27: every guarded operation that set operationInProgress clears it on   *)
(* every exit path, so, the awaited calls returning, whenever               *)
(* operationInProgress is true it eventually becomes false again: a later   *)
(* registerPasskey or authenticateWithPasskey is not rejected forever.      *)
(***************************************************************************)
C27_LockEventuallyReleased == store.operationInProgress ~> ~store.operationInProgress

\* registerPasskey took the lock, register failed, and the lock is free again
C27_Witness ==
    /\ last.op = "registerPasskey"
    /\ ~last.res.success
    /\ last.res.error # "Another operation is in progress"
    /\ last.g.calls # <<>>
    /\ ~store.operationInProgress

(***************************************************************************)
(* C28: with simulationMode on, a placeOrder with a valid order, made by    *)
(* an authenticated user with a valid session, never touches the real path  *)
(* (no authenticate, executeTrade, getAccount, simulateTransaction or       *)
(* sendTransaction), returns success with a hash of 64 hexadecimal          *)
(* characters, and lowers the persisted mock balance by the order size,     *)
(* not below 0; the balance the store shows is then the persisted mock      *)
(* balance.                                                                 *)
(***************************************************************************)
C28_IsHex(h) == \A i \in 1..Len(h) : \E k \in 1..16 : h[i] = HexChars[k]

C29_EmptyVault ==
    [totalLiquidity |-> Num(0), userShares |-> Num(0), apy |-> Frac(25, 2),
     totalShares |-> Num(0), userDeposited |-> Num(0)]

C29_Deposited(before, after, amount, newShares) ==
    /\ after # Null
    /\ getMockVaultData(after).totalLiquidity
          = NumAdd(getMockVaultData(before).totalLiquidity, amount)
    /\ getMockVaultData(after).userDeposited
          = NumAdd(getMockVaultData(before).userDeposited, amount)
    /\ getMockVaultData(after).totalShares
          = NumAdd(getMockVaultData(before).totalShares, newShares)
    /\ getMockVaultData(after).userShares
          = NumAdd(getMockVaultData(before).userShares, newShares)
    /\ getMockVaultData(after).apy = getMockVaultData(before).apy
    /\ ParseFloat(getMockKaleBalance(after))
          = NumSub(ParseFloat(getMockKaleBalance(before)), amount)

With(x, F(_)) == CHOOSE r \in {F(v) : v \in {x}} : TRUE

With2(x, y, F(_, _)) == CHOOSE r \in {F(v, w) : v \in {x}, w \in {y}} : TRUE

With3(x, y, z, F(_, _, _)) ==
    CHOOSE r \in {F(u, v, w) : u \in {x}, v \in {y}, w \in {z}} : TRUE

BigTrim(a) ==
    With(a, LAMBDA v :
        IF \A i \in 1..Len(v) : v[i] = 0 THEN <<>>
        ELSE SubSeq(v, 1, CHOOSE n \in 1..Len(v) :
                              v[n] # 0 /\ \A j \in (n + 1)..Len(v) : v[j] = 0))

\* for n < 2^31
BigOfNat(n) ==
    With(n, LAMBDA v :
        BigTrim(<<v % 32768, (v \div 32768) % 32768, v \div (32768 * 32768)>>))

BigDigit(a, i) == IF i <= Len(a) THEN a[i] ELSE 0

RECURSIVE BigAddFrom(_, _, _, _)
BigAddFrom(a, b, i, carry) ==
    IF i > Len(a) /\ i > Len(b) THEN (IF carry = 0 THEN <<>> ELSE <<carry>>)
    ELSE With(BigDigit(a, i) + BigDigit(b, i) + carry, LAMBDA s :
             With(BigAddFrom(a, b, i + 1, s \div 32768), LAMBDA rest :
                 <<s % 32768>> \o rest))

BigAdd(a, b) == With2(a, b, LAMBDA v, w : BigAddFrom(v, w, 1, 0))

\* a - b for a >= b
RECURSIVE BigSubFrom(_, _, _, _)
BigSubFrom(a, b, i, borrow) ==
    IF i > Len(a) THEN <<>>
    ELSE With(a[i] - BigDigit(b, i) - borrow, LAMBDA d :
             With(BigSubFrom(a, b, i + 1, IF d < 0 THEN 1 ELSE 0), LAMBDA rest :
                 <<(d + 32768) % 32768>> \o rest))

BigSub(a, b) == With2(a, b, LAMBDA v, w : BigTrim(BigSubFrom(v, w, 1, 0)))

\* -1, 0 or 1 as a < b, a = b or a > b
BigCmp(a, b) ==
    With2(a, b, LAMBDA v, w :
        IF Len(v) # Len(w) THEN (IF Len(v) < Len(w) THEN -1 ELSE 1)
        ELSE IF v = w THEN 0
        ELSE With(CHOOSE i \in 1..Len(v) :
                      v[i] # w[i] /\ \A j \in (i + 1)..Len(v) : v[j] = w[j],
                  LAMBDA i : IF v[i] < w[i] THEN -1 ELSE 1))

\* a * k for a digit k
RECURSIVE BigMulDigitFrom(_, _, _, _)
BigMulDigitFrom(a, k, i, carry) ==
    IF i > Len(a) THEN (IF carry = 0 THEN <<>> ELSE <<carry>>)
    ELSE With(a[i] * k + carry, LAMBDA s :
             With(BigMulDigitFrom(a, k, i + 1, s \div 32768), LAMBDA rest :
                 <<s % 32768>> \o rest))

BigMulDigit(a, k) == With2(a, k, LAMBDA v, w : BigTrim(BigMulDigitFrom(v, w, 1, 0)))

BigShiftDigits(a, n) ==
    With(a, LAMBDA v : IF v = <<>> THEN <<>> ELSE [i \in 1..n |-> 0] \o v)

RECURSIVE BigMulFrom(_, _, _)
BigMulFrom(a, b, i) ==
    IF i > Len(b) THEN <<>>
    ELSE BigAdd(BigShiftDigits(BigMulDigit(a, b[i]), i - 1), BigMulFrom(a, b, i + 1))

BigMul(a, b) == With2(a, b, LAMBDA v, w : BigMulFrom(v, w, 1))

\* a * 2^n
BigShl(a, n) ==
    With(n, LAMBDA k : BigShiftDigits(BigMulDigit(a, 2 ^ (k % 15)), k \div 15))

\* floor(a / 2^n)
BigShr(a, n) ==
    With2(a, n, LAMBDA v, w :
        With2(IF w \div 15 >= Len(v) THEN <<>> ELSE SubSeq(v, w \div 15 + 1, Len(v)),
              w % 15,
              LAMBDA hi, r :
                  BigTrim([i \in 1..Len(hi) |->
                              (hi[i] \div 2 ^ r)
                              + (BigDigit(hi, i + 1) % 2 ^ r) * 2 ^ (15 - r)])))

\* the number of binary digits of a
BigBitLen(a) ==
    With(a, LAMBDA v :
        IF v = <<>> THEN 0
        ELSE 15 * (Len(v) - 1)
             + (CHOOSE k \in 1..15 : 2 ^ (k - 1) <= v[Len(v)] /\ v[Len(v)] < 2 ^ k))

\* bit i of a, bit 0 the lowest
BigBit(a, i) ==
    With2(a, i, LAMBDA v, w : (BigDigit(v, w \div 15 + 1) \div 2 ^ (w % 15)) % 2)

\* the largest digit q with q * b <= r, counting down from the estimate d >= q
RECURSIVE BigQuotientDigit(_, _, _)
BigQuotientDigit(r, b, d) ==
    IF BigCmp(BigMulDigit(b, d), r) <= 0 THEN d ELSE BigQuotientDigit(r, b, d - 1)

\* the estimate of that digit from the two top digits of r and the top digit of b:
\* at most 2 too large when the top digit of b is at least 2^14 (Knuth, 4.3.1 D)
BigQuotientEstimate(r, b) ==
    With((BigDigit(r, Len(b) + 1) * 32768 + BigDigit(r, Len(b))) \div b[Len(b)],
         LAMBDA d : IF d > 32767 THEN 32767 ELSE d)

\* long division, digit i of a downwards: quotient q and remainder r so far
RECURSIVE BigDivFrom(_, _, _, _, _)
BigDivFrom(a, b, i, q, r) ==
    IF i = 0 THEN [q |-> BigTrim(q), r |-> r]
    ELSE With(BigTrim(<<a[i]>> \o r), LAMBDA r2 :
             With(BigQuotientDigit(r2, b, BigQuotientEstimate(r2, b)), LAMBDA d :
                 With2(<<d>> \o q, BigSub(r2, BigMulDigit(b, d)), LAMBDA q3, r3 :
                     BigDivFrom(a, b, i - 1, q3, r3))))

\* [q, r] with a = q * b + r * 2^-s and r < b * 2^s, for b > 0, where s is the shift
\* that brings the top digit of b to 2^14 or more: r = 0 if and only if b divides a
BigDivMod(a, b) ==
    With2(a, b, LAMBDA v, w :
        With((15 - (BigBitLen(w) % 15)) % 15, LAMBDA s :
            With2(BigShl(v, s), BigShl(w, s), LAMBDA vs, ws :
                BigDivFrom(vs, ws, Len(vs), <<>>, <<>>))))

\* a binary64 number m * 2^e: m = 0, or m of exactly 53 bits
Zero64 == [m |-> <<>>, e |-> 0]

\* M * 2^E, M of more than 53 bits, rounded at bit sh of M
Round64At(M, E, sticky, sh) ==
    With(BigShr(M, sh), LAMBDA q :
        With(BigCmp(BigSub(M, BigShl(q, sh)), BigShl(<<1>>, sh - 1)), LAMBDA c :
            With(IF c > 0 \/ (c = 0 /\ (sticky \/ BigBit(q, 0) = 1))
                 THEN BigAdd(q, <<1>>) ELSE q,
                 LAMBDA q1 :
                     IF BigBitLen(q1) = 54 THEN [m |-> BigShr(q1, 1), e |-> E + sh + 1]
                     ELSE [m |-> q1, e |-> E + sh])))

\* the binary64 number nearest to M * 2^E, or to a value just above it when
\* `sticky` (then M has at least 55 bits): ties go to the even significand
Round64(M, E, sticky) ==
    With3(M, E, sticky, LAMBDA Mv, Ev, s :
        With(BigBitLen(Mv), LAMBDA L :
            IF Mv = <<>> THEN Zero64
            ELSE IF L <= 53 THEN [m |-> BigShl(Mv, 53 - L), e |-> Ev - (53 - L)]
            ELSE Round64At(Mv, Ev, s, L - 53)))

Nat64(n) == Round64(BigOfNat(n), 0, FALSE)

\* x and y as integers on the smaller of the two exponents
Aligned64(x, y) ==
    With(IF x.e < y.e THEN x.e ELSE y.e, LAMBDA e :
        [x |-> BigShl(x.m, x.e - e), y |-> BigShl(y.m, y.e - e), e |-> e])

\* -1, 0 or 1 as x < y, x = y or x > y
Cmp64(x, y) ==
    With2(x, y, LAMBDA v, w :
        IF v.m = <<>> \/ w.m = <<>>
        THEN (IF v.m = w.m THEN 0 ELSE IF v.m = <<>> THEN -1 ELSE 1)
        ELSE With(Aligned64(v, w), LAMBDA a : BigCmp(a.x, a.y)))

Gt64(x, y) == Cmp64(x, y) > 0

\* x + y
Add64(x, y) ==
    With2(x, y, LAMBDA v, w :
        IF v.m = <<>> THEN w
        ELSE IF w.m = <<>> THEN v
        ELSE With(Aligned64(v, w), LAMBDA a : Round64(BigAdd(a.x, a.y), a.e, FALSE)))

\* Math.max(0, x - y)
SubMax64(x, y) ==
    With2(x, y, LAMBDA v, w :
        IF Cmp64(v, w) <= 0 THEN Zero64
        ELSE IF w.m = <<>> THEN v
        ELSE With(Aligned64(v, w), LAMBDA a : Round64(BigSub(a.x, a.y), a.e, FALSE)))

\* x * y
Mul64(x, y) ==
    With2(x, y, LAMBDA v, w :
        IF v.m = <<>> \/ w.m = <<>> THEN Zero64
        ELSE Round64(BigMul(v.m, w.m), v.e + w.e, FALSE))

\* x / y for y > 0: 56 or 57 quotient bits and whether the division left a remainder
Div64(x, y) ==
    With2(x, y, LAMBDA v, w :
        IF v.m = <<>> THEN Zero64
        ELSE With(BigDivMod(BigShl(v.m, 56), w.m), LAMBDA d :
                 Round64(d.q, v.e - w.e - 56, d.r # <<>>)))

(***************************************************************************)
(* PasskeyService: the simulated vault as JavaScript computes it.  The      *)
(* ledger claims above compare values that one and the same expression      *)
(* produces, or are stated in exact arithmetic; whether a withdrawal of the *)
(* whole position leaves exactly 0 shares is a question of rounding, so     *)
(* here the fields of mockVaultData are binary64 numbers.  mockKaleBalance  *)
(* is kept as the number its string denotes: Number.prototype.toString      *)
(* prints the digits that parseFloat reads back as the same number.         *)
(***************************************************************************)
DefaultVaultData64 ==
    [totalLiquidity |-> Nat64(150000), userShares |-> Zero64,
     apy |-> Div64(Nat64(25), Nat64(2)), totalShares |-> Nat64(100000),
     userDeposited |-> Zero64]

getMockVaultData64(b) ==
    IF b # Null /\ b[1].mockVaultData # Null THEN b[1].mockVaultData[1]
    ELSE DefaultVaultData64

getMockKaleBalance64(b) ==
    IF b # Null /\ b[1].mockKaleBalance # <<>> THEN b[1].mockKaleBalance
    ELSE Nat64(DefaultMockBalance)

\* VaultPanel.calculateUserValue(), the amount of its Max button
calculateUserValue64(vaultInfo) ==
    IF vaultInfo.totalShares = Zero64 THEN Zero64
    ELSE Mul64(Div64(vaultInfo.userShares, vaultInfo.totalShares), vaultInfo.totalLiquidity)

simulateVaultDeposit64(b, amount) ==
    With2(getMockVaultData64(b), getMockKaleBalance64(b), LAMBDA vaultData, currentBalance :
        IF Gt64(amount, currentBalance)
        THEN [blob |-> b, res |-> Fail("Insufficient balance for deposit")]
        ELSE With(IF Gt64(vaultData.totalShares, Zero64)
                  THEN Mul64(Div64(amount, vaultData.totalLiquidity), vaultData.totalShares)
                  ELSE amount,
                  LAMBDA newShares :
                      [blob |-> Some([b[1] EXCEPT
                           !.mockVaultData =
                               Some([totalLiquidity |->
                                         Add64(vaultData.totalLiquidity, amount),
                                     userShares |-> Add64(vaultData.userShares, newShares),
                                     apy |-> vaultData.apy,
                                     totalShares |->
                                         Add64(vaultData.totalShares, newShares),
                                     userDeposited |->
                                         Add64(vaultData.userDeposited, amount)]),
                           !.mockKaleBalance = SubMax64(currentBalance, amount)]),
                       res |-> Ok]))

simulateVaultWithdraw64(b, amount) ==
    With2(getMockVaultData64(b), getMockKaleBalance64(b), LAMBDA vaultData, currentBalance :
        With2(IF Gt64(vaultData.totalShares, Zero64)
              THEN Mul64(Div64(vaultData.userShares, vaultData.totalShares),
                         vaultData.totalLiquidity)
              ELSE Zero64,
              Mul64(Div64(amount, vaultData.totalLiquidity), vaultData.totalShares),
              LAMBDA userValue, sharesToBurn :
                  IF Gt64(amount, userValue)
                  THEN [blob |-> b,
                        res |-> Fail("Insufficient vault position for withdrawal")]
                  ELSE [blob |-> Some([b[1] EXCEPT
                            !.mockVaultData =
                                Some([totalLiquidity |->
                                          SubMax64(vaultData.totalLiquidity, amount),
                                      userShares |->
                                          SubMax64(vaultData.userShares, sharesToBurn),
                                      apy |-> vaultData.apy,
                                      totalShares |->
                                          SubMax64(vaultData.totalShares, sharesToBurn),
                                      userDeposited |->
                                          SubMax64(vaultData.userDeposited, amount)]),
                            !.mockKaleBalance = Add64(currentBalance, amount)]),
                        res |-> Ok]))

(***************************************************************************)
(* SpecVault64: the two vault functions applied, one call after the other,  *)
(* to the ledger of a signed-in user: deposits of whole amounts,            *)
(* withdrawals of a whole amount, and withdrawals of the Max amount of the  *)
(* vault panel.  `last` is the call just made, with the ledger it found and *)
(* the number of calls so far.                                              *)
(***************************************************************************)
MaxLedgerCalls == 3

DepositAmounts64 == {Nat64(n) : n \in {12, 34, 100, 400}}

WithdrawAmounts64 == {Nat64(100)}

InitVault64 ==
    /\ now = 1
    /\ supported = TRUE
    /\ blob = Some([NewAuthData("u1") EXCEPT !.lastAuth = 1])
    /\ authenticationInProgress = FALSE
    /\ lastAuthResult = Some(OkUser("u1"))
    /\ store = [ConnectedStore EXCEPT !.simulationMode = TRUE]
    /\ procs = [p \in Procs |-> IdleProc]
    /\ running = None
    /\ last = NoLast

LedgerCalled64(op, amount, done) ==
    /\ blob' = done.blob
    /\ last' = [NoLast EXCEPT !.op = op, !.args.amount = amount, !.args.before = blob,
                              !.res = done.res, !.g.ledger = last.g.ledger + 1]
    /\ UNCHANGED <<now, supported, authenticationInProgress, lastAuthResult, store, procs,
                   running>>

Deposit64(amount) ==
    /\ last.g.ledger < MaxLedgerCalls
    /\ \E done \in {simulateVaultDeposit64(blob, amount)} :
          LedgerCalled64("simulateVaultDeposit", amount, done)

Withdraw64(amount) ==
    /\ last.g.ledger < MaxLedgerCalls
    /\ \E done \in {simulateVaultWithdraw64(blob, amount)} :
          LedgerCalled64("simulateVaultWithdraw", amount, done)

\* the Max button, then Withdraw
WithdrawMax64 ==
    /\ last.g.ledger < MaxLedgerCalls
    /\ Gt64(getMockVaultData64(blob).userShares, Zero64)
    /\ \E amount \in {calculateUserValue64(getMockVaultData64(blob))} :
          \E done \in {simulateVaultWithdraw64(blob, amount)} :
             LedgerCalled64("simulateVaultWithdraw", amount, done)

NextVault64 ==
    \/ \E amount \in DepositAmounts64 : Deposit64(amount)
    \/ \E amount \in WithdrawAmounts64 : Withdraw64(amount)
    \/ WithdrawMax64

SpecVault64 == InitVault64 /\ [][NextVault64]_vars

(***************************************************************************)
(* C30: simulateVaultWithdraw(amount) with amount exactly equal to the      *)
(* current userValue = userShares / totalShares * totalLiquidity, where     *)
(* userShares > 0, succeeds, leaves userShares = 0 and credits the mock     *)
(* balance by amount.                                                       *)
(***************************************************************************)
C30_WithdrawAllLeavesNoShares ==
    (/\ last.op = "simulateVaultWithdraw"
     /\ Gt64(getMockVaultData64(last.args.before).userShares, Zero64)
     /\ last.args.amount
           = Mul64(Div64(getMockVaultData64(last.args.before).userShares,
                         getMockVaultData64(last.args.before).totalShares),
                   getMockVaultData64(last.args.before).totalLiquidity))
    => /\ last.res.success
       /\ getMockVaultData64(blob).userShares = Zero64
       /\ getMockKaleBalance64(blob)
             = Add64(getMockKaleBalance64(last.args.before), last.args.amount)

\* the part of it that holds: the withdrawal succeeds and the balance is credited
C30_WithdrawAllSucceeds ==
    (/\ last.op = "simulateVaultWithdraw"
     /\ Gt64(getMockVaultData64(last.args.before).userShares, Zero64)
     /\ last.args.amount
           = Mul64(Div64(getMockVaultData64(last.args.before).userShares,
                         getMockVaultData64(last.args.before).totalShares),
                   getMockVaultData64(last.args.before).totalLiquidity))
    => /\ last.res.success
       /\ getMockKaleBalance64(blob)
             = Add64(getMockKaleBalance64(last.args.before), last.args.amount)

\* a withdrawal of the whole position that did leave no share
C30_Witness ==
    /\ last.op = "simulateVaultWithdraw"
    /\ last.args.amount = Nat64(100)
    /\ last.res.success
    /\ getMockVaultData64(last.args.before).userDeposited = Nat64(100)
    /\ getMockVaultData64(blob).userShares = Zero64

(***************************************************************************)
(* SpecFrame: the service's register and authenticate and the store's      *)
(* vault operations, called one at a time by a connected user whose        *)
(* persisted session has expired and whose simulated balance is the        *)
(* default or what simulated trades have left of it.                       *)
(***************************************************************************)
FrameOps == {"register", "authenticate"}

FrameAmounts == {Num(400)}

\* register() or authenticate() is called while nothing else is in flight
StartServiceAlone(p, op) ==
    /\ \A o \in Procs : Idle(o)
    /\ Start(p, op, [NoArgs EXCEPT !.registered = (blob # Null),
                                   !.before = Some(Snapshot)])
    /\ UNCHANGED <<now, supported, blob, authenticationInProgress, lastAuthResult, store>>

NextFrame ==
    \/ \E p \in OrderProcs, op \in FrameOps : StartServiceAlone(p, op)
    \/ \E p \in OrderProcs, op \in VaultOps, amount \in FrameAmounts :
          (\A o \in Procs : Idle(o)) /\ StartVaultOp(p, op, amount)
    \/ \E p \in Procs : registerSteps(p)
    \/ \E p \in Procs : authenticateSteps(p)
    \/ \E p \in Procs : vaultOperationSteps(p)
    \/ \E p \in Procs : simulateVaultSteps(p)
    \/ \E p \in Procs : refreshBalancesSteps(p)
    \/ \E p \in Procs : getKaleBalanceSteps(p)

SpecFrame == InitVault /\ [][NextFrame]_vars

(***************************************************************************)
(* C31: the simulated ledger (mock balance and mock vault data) is changed *)
(* only by the simulation operations: a register or authenticate call      *)
(* that runs to completion with nothing interleaved leaves the mock        *)
(* balance and the mock vault data exactly as they were when it was made.  *)
(***************************************************************************)
C31_AuthLeavesLedger ==
    (last.op \in {"register", "authenticate"} /\ last.args.before # <<>>)
    => Ledger(blob) = Ledger(last.args.before[1].blob)

\* the part of C31 that holds: authenticate alone leaves the ledger as it was
C31_AuthenticateLeavesLedger ==
    (last.op = "authenticate" /\ last.args.before # <<>>)
    => Ledger(blob) = Ledger(last.args.before[1].blob)

\* authenticate has asked the authenticator and succeeded on a ledger that
\* simulated operations have changed
C31_Witness ==
    /\ last.op = "authenticate"
    /\ last.res.success
    /\ last.g.prompts = 1
    /\ Ledger(blob).vault # DefaultVaultData
    /\ Ledger(blob).balance # Num(DefaultMockBalance)

(***************************************************************************)
(* C32: the effects of one simulated deposit or withdrawal (vault fields   *)
(* and mock balance) become visible together: in every interleaving each   *)
(* step that changes the persisted vault is the one step of a deposit or   *)
(* withdrawal, and the same step debits or credits the persisted balance   *)
(* by the amount, so that no other operation reads a blob in which only    *)
(* one of the two has been written.                                        *)
(***************************************************************************)
C32_DepositStep(p) == Waiting(p, "simulateVaultDeposit_delay") /\ procs'[p] # procs[p]

C32_WithdrawStep(p) == Waiting(p, "simulateVaultWithdraw_delay") /\ procs'[p] # procs[p]

C32_VaultAndBalanceTogether ==
    [][LET before == Ledger(blob)
           after == Ledger(blob')
       IN  /\ \A p \in Procs :
                 C32_DepositStep(p) =>
                     IF procs'[p].ret.success
                     THEN /\ after.vault.totalLiquidity =
                                 NumAdd(before.vault.totalLiquidity, procs[p].amount)
                          /\ after.vault.userDeposited =
                                 NumAdd(before.vault.userDeposited, procs[p].amount)
                          /\ after.balance = NumSub(before.balance, procs[p].amount)
                     ELSE after = before
           /\ \A p \in Procs :
                 C32_WithdrawStep(p) =>
                     IF procs'[p].ret.success
                     THEN /\ after.vault.totalLiquidity =
                                 NumSub(before.vault.totalLiquidity, procs[p].amount)
                          /\ after.balance = NumAdd(before.balance, procs[p].amount)
                     ELSE after = before
           /\ (\A p \in Procs : ~C32_DepositStep(p) /\ ~C32_WithdrawStep(p))
                  => after.vault = before.vault]_vars

\* a deposit of 400 has just been persisted while the other call is in flight
C32_Witness ==
    \E p \in Procs, o \in Procs :
        /\ p # o
        /\ ~Idle(o)
        /\ At(p, "VaultWithSimulation_return")
        /\ procs[p].op = "depositToVault"
        /\ procs[p].ret.success
        /\ Ledger(blob).vault.userDeposited = Num(400)
        /\ Ledger(blob).balance = Num(600)

(***************************************************************************)
(* C33: when no passkey is stored (getAuthStatus has no userId),           *)
(* authenticateWithPasskey starts the registration flow: its call of       *)
(* registerPasskey invokes PasskeyService.register, and the call returns   *)
(* the result of that registration.                                        *)
(***************************************************************************)
Called(calls, callee) == \E k \in 1..Len(calls) : calls[k] = callee

C33_NoPasskeyStartsRegistration ==
    (/\ last.op = "authenticateWithPasskey"
     /\ Called(last.g.calls, "registerPasskey"))
    => /\ Called(last.g.calls, "register")
       /\ last.res.error # "Another operation is in progress"

(***************************************************************************)
(* C34: when a non-forced trade succeeded through the simulation fallback  *)
(* (the real attempt failed), executeSmartContractTrade treats it as a     *)
(* simulated trade: it decreases the persisted mock balance by the trade   *)
(* amount and shows the mock balance, and it does not refresh the real     *)
(* balance as after a real success.                                        *)
(***************************************************************************)
C34_FallbackIsSimulatedTrade ==
    (/\ last.op = "placeOrder"
     /\ ~last.args.sim
     /\ last.att.done
     /\ ~last.att.res.success
     /\ last.res.success)
    => /\ last.g.ledger = 1
       /\ ~Called(last.g.calls, "refreshBalances")

(***************************************************************************)
(* C35: sign-out is final with respect to operations already in flight:    *)
(* once signOutPasskey has run, no operation started before it re-creates  *)
(* the persisted blob or moves the store out of the signed-out state       *)
(* (passkeyAuth unauthenticated, isConnected false, balance 0).  Stated of *)
(* authenticateWithPasskey calls made while an identity was persisted: if  *)
(* nothing is persisted when such a call takes a step, signOutPasskey has  *)
(* run since the call was made.                                            *)
(***************************************************************************)
C35_SignedOut(st) ==
    /\ ~st.passkeyAuth.isAuthenticated
    /\ ~st.isConnected
    /\ st.balance = Num(0)

C35_SignOutIsFinal ==
    [][\A p \in Procs :
          (/\ procs[p].op = "authenticateWithPasskey"
           /\ procs[p].args.registered
           /\ blob = Null
           /\ procs'[p] # procs[p])
          => /\ blob' = Null
             /\ C35_SignedOut(store) => C35_SignedOut(store')]_vars

(***************************************************************************)
(* C36: no ledger update is lost across an authentication: when a          *)
(* PasskeyService.authenticate call that was waiting for the authenticator *)
(* completes, the mock balance and the mock vault data that simulated      *)
(* trades, deposits and withdrawals have persisted in the meantime are     *)
(* still in the persisted blob; authenticate changes only lastAuth.        *)
(***************************************************************************)
C36_AuthenticateKeepsLedger ==
    [][\A p \in Procs :
          (/\ Waiting(p, "authenticate_get")
           /\ procs'[p] # procs[p]
           /\ blob # Null)
          => /\ blob' # Null
             /\ Ledger(blob') = Ledger(blob)]_vars

(***************************************************************************)
(* C37: one executeTradeWithDebug call sends at most one transaction that  *)
(* can still take effect: once the first endpoint's transaction has been   *)
(* accepted by sendTransaction with status PENDING and its poll loop has   *)
(* timed out (the transaction may still land), no second transaction for   *)
(* the same order is sent through the other endpoint.  While the second    *)
(* attempt runs, `result` holds what the first one returned.               *)
(***************************************************************************)
C37_NoSecondSendAfterTimeout ==
    \A p \in Procs :
        (/\ procs[p].op = "executeTradeWithDebug"
         /\ procs[p].result = TimeoutFailure)
        => procs[p].g.send <= 1

(***************************************************************************)
(* C38: the vault share price is invariant: starting from the default      *)
(* vault (150000 liquidity / 100000 shares), after any sequence of         *)
(* successful simulated deposits and withdrawals the ratio                 *)
(* totalLiquidity / totalShares is unchanged, 3 / 2, and                   *)
(* userShares <= totalShares, in exact arithmetic.                         *)
(***************************************************************************)
C38_SharePriceInvariant ==
    LET vaultData == getMockVaultData(blob)
    IN  /\ NumGt(vaultData.totalShares, Num(0))
        /\ NumDiv(vaultData.totalLiquidity, vaultData.totalShares) = Frac(3, 2)
        /\ NumLe(vaultData.userShares, vaultData.totalShares)

\* a withdrawal has just succeeded and has left the user a part of what two
\* deposits bought
C38_Witness ==
    /\ last.op = "withdrawFromVault"
    /\ last.res.success
    /\ getMockVaultData(blob).userDeposited = Num(400)
    /\ NumGt(getMockVaultData(blob).userShares, Num(0))
    /\ getMockVaultData(blob).totalLiquidity = Num(150400)

(***************************************************************************)
(* C39: registerPasskey and authenticateWithPasskey are rejected with      *)
(* 'Another operation is in progress' only when another register or        *)
(* authenticate operation is actually in flight: whenever one of them      *)
(* finds the lock taken and returns the rejection, some other call of      *)
(* registerPasskey or authenticateWithPasskey is in flight; the lock is    *)
(* never that of a checkPasskeyStatus data load or of the very call that   *)
(* invokes them.                                                           *)
(***************************************************************************)
C39_Rejects(p) ==
    /\ At(p, "registerPasskey") \/ At(p, "authenticateWithPasskey")
    /\ store.operationInProgress
    /\ procs'[p] # procs[p]

C39_RejectedOnlyByAnotherOperation ==
    [][\A p \in Procs :
          C39_Rejects(p)
          => \E o \in Procs \ {p} :
                 /\ ~Idle(o)
                 /\ procs[o].op \in {"registerPasskey", "authenticateWithPasskey"}]_vars
====
